---- MODULE Spec2Model ----
(***************************************************************************)
(* Model of the MedConnect FHIR normalisation and validation engine:       *)
(* the Patient / Observation resource models (src/api/models), their FHIR  *)
(* codec (to_fhir / from_fhir) and the FHIR validator                      *)
(* (src/core/fhir/validators.py).                                          *)
(*                                                                         *)
(* Python values are modelled as tagged records so that values of          *)
(* different Python types are always distinct and comparable:              *)
(*   None            [t |-> "none"]                                        *)
(*   str   s         [t |-> "str",  s |-> s]                               *)
(*   bool  b         [t |-> "bool", b |-> b]                               *)
(*   int/float n     [t |-> "int",  i |-> n]                               *)
(*   list  xs        [t |-> "list", l |-> xs]                              *)
(*   dict            a function from its keys (strings) to values          *)
(*   pydantic model  a record with t |-> <class name> and its fields       *)
(*   raised error    [t |-> "error", msg |-> ...]                          *)
(***************************************************************************)
EXTENDS Integers, Sequences, FiniteSets, TLC

VARIABLES
    pc,         \* the step the current request has reached
    now,        \* the wall clock read by datetime.utcnow()
    uuids,      \* how many uuid.uuid4() identifiers have been drawn
    wire_in,    \* the FHIR JSON (or FHIR resource object) handed in
    entity,     \* the Patient / Observation model instance, or the error
    wire_out,   \* the FHIR JSON produced by to_fhir
    redecoded,  \* from_fhir of wire_out
    report,     \* the validator's outcome
    patient_table,          \* PatientTable: the stored items
    observation_table,      \* ObservationTable: the stored items
    prediction_table,       \* PredictionTable: the stored items
    fhir_ingestion_stream,  \* the records put on FHIR_INGESTION_STREAM
    notification_stream,    \* the records put on NOTIFICATION_STREAM
    ml_prediction_stream,   \* the records put on ML_PREDICTION_STREAM
    calls,      \* how many writing requests have been served
    response,   \* the last request served and what its caller got
    task_state, \* the state of each task instance of the DAG run
    try_number, \* how often each task of the DAG run has been started
    xcom,       \* the values the tasks of the DAG run have pushed
    s3,         \* the objects of the data bucket, by path
    callers     \* the repository calls in progress, by caller

\* the tables, the streams and the handlers' bookkeeping
storeVars ==
    <<patient_table, observation_table, prediction_table,
      fhir_ingestion_stream, notification_stream, ml_prediction_stream,
      calls, response>>

\* the run of the ETL DAG
dagVars == <<task_state, try_number, xcom, s3>>

vars ==
    <<pc, now, uuids, wire_in, entity, wire_out, redecoded, report,
      storeVars, dagVars, callers>>

(***************************************************************************)
(* Bounds of the model.                                                    *)
(***************************************************************************)
\* largest step of the wall clock between two operations
MaxTick == 1
\* longest component / identifier / name list drawn as an input
MaxList == 2
\* most requests that write to a table in one behaviour
MaxWrites == 2
\* most versions of a patient a table holds when the repository is opened
MaxVersions == 2

(***************************************************************************)
(* Python values.                                                          *)
(***************************************************************************)
None == [t |-> "none"]
S(x) == [t |-> "str", s |-> x]
B(x) == [t |-> "bool", b |-> x]
I(x) == [t |-> "int", i |-> x]
L(x) == [t |-> "list", l |-> x]
Err(m) == [t |-> "error", msg |-> m]
EmptyDict == [k \in {} |-> None]

IsErr(v) == "t" \in DOMAIN v /\ v.t = "error"

\* Python truth value of a non-dict value: None, False, 0, "" and [] are
\* falsy; a pydantic model instance (no __bool__ / __len__) is truthy.
Truthy(v) ==
    CASE v.t = "none" -> FALSE
      [] v.t = "bool" -> v.b
      [] v.t = "int"  -> v.i # 0
      [] v.t = "str"  -> v.s # ""
      [] v.t = "list" -> Len(v.l) > 0
      [] OTHER        -> TRUE

\* Python truth value of a dict: non-empty.
TruthyDict(d) == DOMAIN d # {}

\* dict.get(k, default)
Get(d, k, default) == IF k \in DOMAIN d THEN d[k] ELSE default

\* {k: v for k, v in d.items() if v is not None}
DropNone(d) == [k \in {j \in DOMAIN d : d[j] # None} |-> d[k]]

\* str.find(ch, from), 1-based; 0 when ch does not occur
RECURSIVE IndexOf(_, _, _)
IndexOf(str, ch, from) ==
    IF from > Len(str) THEN 0
    ELSE IF SubSeq(str, from, from) = ch THEN from
    ELSE IndexOf(str, ch, from + 1)

\* str.startswith(prefix)
StartsWith(str, prefix) ==
    Len(str) >= Len(prefix) /\ SubSeq(str, 1, Len(prefix)) = prefix

\* all of str after its first "/"
AfterSlash(str) == SubSeq(str, IndexOf(str, "/", 1) + 1, Len(str))

\* str.split("/")[1], for a str that contains a "/"
SplitSlash1(str) ==
    LET a == IndexOf(str, "/", 1)
        b == IndexOf(str, "/", a + 1)
    IN SubSeq(str, a + 1, IF b = 0 THEN Len(str) ELSE b - 1)

(***************************************************************************)
(* Dates: datetime.strptime(v, "%Y-%m-%d") and datetime.fromisoformat(v).  *)
(***************************************************************************)
Digits == <<"0", "1", "2", "3", "4", "5", "6", "7", "8", "9">>

IsDigit(c) == \E d \in 1..10 : Digits[d] = c

DigitVal(c) == (CHOOSE d \in 1..10 : Digits[d] = c) - 1

AllDigits(str) == \A p \in 1..Len(str) : IsDigit(SubSeq(str, p, p))

RECURSIVE ToNat(_)
ToNat(str) ==
    IF Len(str) = 0 THEN 0
    ELSE 10 * ToNat(SubSeq(str, 1, Len(str) - 1))
         + DigitVal(SubSeq(str, Len(str), Len(str)))

IsLeap(y) == (y % 4 = 0 /\ y % 100 # 0) \/ y % 400 = 0

DaysIn(y, m) ==
    IF m = 2 THEN (IF IsLeap(y) THEN 29 ELSE 28)
    ELSE IF m \in {4, 6, 9, 11} THEN 30 ELSE 31

\* A (year, month, day) triple is a calendar date; its ordinal orders dates.
ValidYmd(y, m, d) == y >= 1 /\ m \in 1..12 /\ d >= 1 /\ d <= DaysIn(y, m)
Ordinal(y, m, d) == (y * 100 + m) * 100 + d

\* strptime(str, "%Y-%m-%d"): a 4-digit year, a 1-2 digit month and a 1-2
\* digit day separated by "-"; the date's ordinal, or -1 for ValueError.
StrpTimeYmd(str) ==
    LET a == IndexOf(str, "-", 1)
        b == IF a = 0 THEN 0 ELSE IndexOf(str, "-", a + 1)
        ys == SubSeq(str, 1, a - 1)
        ms == SubSeq(str, a + 1, b - 1)
        ds == SubSeq(str, b + 1, Len(str))
    IN IF a = 0 \/ b = 0 THEN -1
       ELSE IF ~(Len(ys) = 4 /\ Len(ms) \in 1..2 /\ Len(ds) \in 1..2) THEN -1
       ELSE IF ~(AllDigits(ys) /\ AllDigits(ms) /\ AllDigits(ds)) THEN -1
       ELSE IF ~ValidYmd(ToNat(ys), ToNat(ms), ToNat(ds)) THEN -1
       ELSE Ordinal(ToNat(ys), ToNat(ms), ToNat(ds))

\* The time part HH:MM:SS of an ISO timestamp.
IsIsoTime(str) ==
    /\ Len(str) = 8
    /\ SubSeq(str, 3, 3) = ":" /\ SubSeq(str, 6, 6) = ":"
    /\ AllDigits(SubSeq(str, 1, 2)) /\ ToNat(SubSeq(str, 1, 2)) <= 23
    /\ AllDigits(SubSeq(str, 4, 5)) /\ ToNat(SubSeq(str, 4, 5)) <= 59
    /\ AllDigits(SubSeq(str, 7, 8)) /\ ToNat(SubSeq(str, 7, 8)) <= 59

\* The date part YYYY-MM-DD of an ISO timestamp.
IsIsoDate(str) ==
    /\ Len(str) = 10
    /\ SubSeq(str, 5, 5) = "-" /\ SubSeq(str, 8, 8) = "-"
    /\ AllDigits(SubSeq(str, 1, 4)) /\ AllDigits(SubSeq(str, 6, 7))
    /\ AllDigits(SubSeq(str, 9, 10))
    /\ ValidYmd(ToNat(SubSeq(str, 1, 4)), ToNat(SubSeq(str, 6, 7)),
                ToNat(SubSeq(str, 9, 10)))

\* datetime.fromisoformat(str) succeeds: YYYY-MM-DD, optionally followed by
\* a separator, HH:MM:SS and a +HH:MM offset.
FromIsoFormatOk(str) ==
    \/ IsIsoDate(str)
    \/ /\ Len(str) = 19
       /\ IsIsoDate(SubSeq(str, 1, 10))
       /\ IsIsoTime(SubSeq(str, 12, 19))
    \/ /\ Len(str) = 25
       /\ IsIsoDate(SubSeq(str, 1, 10))
       /\ IsIsoTime(SubSeq(str, 12, 19))
       /\ SubSeq(str, 20, 20) \in {"+", "-"}
       /\ IsIsoTime(SubSeq(str, 21, 25) \o ":00")

\* str.replace("Z", "+00:00") for a str with at most a trailing "Z"
ReplaceZ(str) ==
    IF Len(str) > 0 /\ SubSeq(str, Len(str), Len(str)) = "Z"
    THEN SubSeq(str, 1, Len(str) - 1) \o "+00:00"
    ELSE str

\* datetime.utcnow().isoformat() at clock reading n
UtcNowIso(n) ==
    S("2024-01-01T00:00:" \o (IF n < 10 THEN "0" ELSE "") \o ToString(n))

\* str(uuid.uuid4()), the k-th identifier drawn
Uuid4(k) == S("uuid-" \o ToString(k))

(***************************************************************************)
(* src/api/models/observation.py: the resource model.                      *)
(***************************************************************************)
\* Quantity(value=..., unit=..., system=..., code=...)
Quantity(value, unit, system, code) ==
    [t |-> "Quantity", value |-> value, unit |-> unit,
     system |-> system, code |-> code]

\* CodeableConcept(coding=..., text=...)
CodeableConcept(coding, text) ==
    [t |-> "CodeableConcept", coding |-> coding, text |-> text]

\* ObservationComponent(code=..., value_quantity=..., ...)
ObservationComponent(code, vq, vs, vb, vi, vcc) ==
    [t |-> "ObservationComponent", code |-> code,
     value_quantity |-> vq, value_string |-> vs, value_boolean |-> vb,
     value_integer |-> vi, value_codeable_concept |-> vcc]

\* The value property of ObservationComponent and of Observation.
ComponentValue(self) ==
    IF self.value_quantity # None THEN self.value_quantity
    ELSE IF self.value_string # None THEN self.value_string
    ELSE IF self.value_boolean # None THEN self.value_boolean
    ELSE IF self.value_integer # None THEN self.value_integer
    ELSE IF self.value_codeable_concept # None
         THEN self.value_codeable_concept
    ELSE None

\* the accessor testing truth values instead of "is not None"
ObservationValueTruthy(self) ==
    IF Truthy(self.value_quantity) THEN self.value_quantity
    ELSE IF Truthy(self.value_string) THEN self.value_string
    ELSE IF Truthy(self.value_boolean) THEN self.value_boolean
    ELSE IF Truthy(self.value_integer) THEN self.value_integer
    ELSE IF Truthy(self.value_codeable_concept)
         THEN self.value_codeable_concept
    ELSE None

ObservationValue(self) ==
    IF self.value_quantity # None THEN self.value_quantity
    ELSE IF self.value_string # None THEN self.value_string
    ELSE IF self.value_boolean # None THEN self.value_boolean
    ELSE IF self.value_integer # None THEN self.value_integer
    ELSE IF self.value_codeable_concept # None
         THEN self.value_codeable_concept
    ELSE None

valid_statuses ==
    {S("registered"), S("preliminary"), S("final"), S("amended"),
     S("corrected"), S("cancelled"), S("entered-in-error"), S("unknown")}

\* @validator("status")
validate_status(v) == v \in valid_statuses

\* @validator("effective_date_time")
validate_effective_date_time(v) == FromIsoFormatOk(v.s)

\* Observation(**f): the pydantic constructor. f carries every field; the
\* field validators run in field order and the first failure is the error.
Observation(f) ==
    IF ~validate_status(f.status)
    THEN Err("status must be one of valid_statuses")
    ELSE IF ~validate_effective_date_time(f.effective_date_time)
    THEN Err("effective_date_time must be in ISO format")
    ELSE [t |-> "Observation"] @@ f

\* BaseModel.dict() of the nested models: field names as keys, recursively,
\* None fields included.
QuantityDict(q) ==
    [value |-> q.value, unit |-> q.unit, system |-> q.system, code |-> q.code]

CodeableConceptDict(c) == [coding |-> c.coding, text |-> c.text]

OptQuantityDict(q) == IF q = None THEN None ELSE QuantityDict(q)

OptCodeableConceptDict(c) == IF c = None THEN None ELSE CodeableConceptDict(c)

ObservationComponentDict(c) ==
    [code |-> CodeableConceptDict(c.code),
     value_quantity |-> OptQuantityDict(c.value_quantity),
     value_string |-> c.value_string,
     value_boolean |-> c.value_boolean,
     value_integer |-> c.value_integer,
     value_codeable_concept |->
         OptCodeableConceptDict(c.value_codeable_concept)]

\* [x.dict() for x in xs] for a list of CodeableConcept / of components
CodeableConceptDicts(xs) ==
    L([n \in 1..Len(xs.l) |-> CodeableConceptDict(xs.l[n])])

ObservationComponentDicts(xs) ==
    L([n \in 1..Len(xs.l) |-> ObservationComponentDict(xs.l[n])])

\* the value branch testing truth values throughout
ObservationToFhirValueTruthy(self) ==
    IF Truthy(self.value_quantity)
    THEN [valueQuantity |-> QuantityDict(self.value_quantity)]
    ELSE IF Truthy(self.value_string)
    THEN [valueString |-> self.value_string]
    ELSE IF Truthy(self.value_boolean)
    THEN [valueBoolean |-> self.value_boolean]
    ELSE IF Truthy(self.value_integer)
    THEN [valueInteger |-> self.value_integer]
    ELSE IF Truthy(self.value_codeable_concept)
    THEN [valueCodeableConcept |->
             CodeableConceptDict(self.value_codeable_concept)]
    ELSE EmptyDict

\* "Add the appropriate value field": the value[x] key to_fhir adds, as a
\* dict of at most one key.
ObservationToFhirValue(self) ==
    IF Truthy(self.value_quantity)
    THEN [valueQuantity |-> QuantityDict(self.value_quantity)]
    ELSE IF self.value_string # None
    THEN [valueString |-> self.value_string]
    ELSE IF self.value_boolean # None
    THEN [valueBoolean |-> self.value_boolean]
    ELSE IF self.value_integer # None
    THEN [valueInteger |-> self.value_integer]
    ELSE IF Truthy(self.value_codeable_concept)
    THEN [valueCodeableConcept |->
             CodeableConceptDict(self.value_codeable_concept)]
    ELSE EmptyDict

\* Observation.to_fhir(self)
ObservationToFhir(self) ==
    LET fhir_observation ==
            [resourceType |-> S("Observation"),
             id |-> self.observation_id,
             meta |-> [versionId |-> S("1"), lastUpdated |-> self.updated_at],
             status |-> self.status,
             category |-> CodeableConceptDicts(self.category),
             code |-> CodeableConceptDict(self.code),
             subject |-> self.subject,
             encounter |-> self.encounter,
             effectiveDateTime |-> self.effective_date_time,
             issued |-> self.issued,
             performer |-> self.performer,
             dataAbsentReason |->
                 IF Truthy(self.data_absent_reason)
                 THEN CodeableConceptDict(self.data_absent_reason) ELSE None,
             interpretation |->
                 IF Truthy(self.interpretation)
                 THEN CodeableConceptDicts(self.interpretation) ELSE None,
             note |-> self.note,
             bodySite |->
                 IF Truthy(self.body_site)
                 THEN CodeableConceptDict(self.body_site) ELSE None,
             method |->
                 IF Truthy(self.method)
                 THEN CodeableConceptDict(self.method) ELSE None,
             specimen |-> self.specimen,
             device |-> self.device,
             referenceRange |-> self.reference_range,
             hasMember |-> self.has_member,
             derivedFrom |-> self.derived_from,
             component |->
                 IF Truthy(self.component)
                 THEN ObservationComponentDicts(self.component) ELSE None]
    IN \* Remove None values
       DropNone(ObservationToFhirValue(self) @@ fhir_observation)

\* CodeableConcept(coding=d.get("coding", []), text=d.get("text"))
CodeableConceptFrom(d) ==
    CodeableConcept(Get(d, "coding", L(<<>>)), Get(d, "text", None))

\* Quantity(value=d.get("value", 0.0), unit=d.get("unit", ""), ...)
QuantityFrom(d) ==
    Quantity(Get(d, "value", I(0)), Get(d, "unit", S("")),
             Get(d, "system", None), Get(d, "code", None))

\* the chain written with independent ifs: every present key is stored
ExtractValueNoElif(fhir_data) ==
    [value_quantity |->
         IF "valueQuantity" \in DOMAIN fhir_data
         THEN QuantityFrom(fhir_data["valueQuantity"]) ELSE None,
     value_string |-> Get(fhir_data, "valueString", None),
     value_boolean |-> Get(fhir_data, "valueBoolean", None),
     value_integer |-> Get(fhir_data, "valueInteger", None),
     value_codeable_concept |->
         IF "valueCodeableConcept" \in DOMAIN fhir_data
         THEN CodeableConceptFrom(fhir_data["valueCodeableConcept"])
         ELSE None]

\* "Extract value based on type": the if / elif chain of from_fhir over the
\* top-level value keys.
ExtractValue(fhir_data) ==
    LET none == [value_quantity |-> None, value_string |-> None,
                 value_boolean |-> None, value_integer |-> None,
                 value_codeable_concept |-> None]
    IN IF "valueQuantity" \in DOMAIN fhir_data
       THEN [none EXCEPT !.value_quantity =
                QuantityFrom(fhir_data["valueQuantity"])]
       ELSE IF "valueString" \in DOMAIN fhir_data
       THEN [none EXCEPT !.value_string = fhir_data["valueString"]]
       ELSE IF "valueBoolean" \in DOMAIN fhir_data
       THEN [none EXCEPT !.value_boolean = fhir_data["valueBoolean"]]
       ELSE IF "valueInteger" \in DOMAIN fhir_data
       THEN [none EXCEPT !.value_integer = fhir_data["valueInteger"]]
       ELSE IF "valueCodeableConcept" \in DOMAIN fhir_data
       THEN [none EXCEPT !.value_codeable_concept =
                CodeableConceptFrom(fhir_data["valueCodeableConcept"])]
       ELSE none

\* "Extract components": one loop iteration of from_fhir, the same chain
\* over the component's value keys.
ExtractComponent(component) ==
    LET component_code ==
            CodeableConceptFrom(Get(component, "code", EmptyDict))
    IN IF "valueQuantity" \in DOMAIN component
       THEN ObservationComponent(component_code,
                QuantityFrom(component["valueQuantity"]),
                None, None, None, None)
       ELSE IF "valueString" \in DOMAIN component
       THEN ObservationComponent(component_code,
                None, component["valueString"], None, None, None)
       ELSE IF "valueBoolean" \in DOMAIN component
       THEN ObservationComponent(component_code,
                None, None, component["valueBoolean"], None, None)
       ELSE IF "valueInteger" \in DOMAIN component
       THEN ObservationComponent(component_code,
                None, None, None, component["valueInteger"], None)
       ELSE IF "valueCodeableConcept" \in DOMAIN component
       THEN ObservationComponent(component_code, None, None, None, None,
                CodeableConceptFrom(component["valueCodeableConcept"]))
       ELSE ObservationComponent(component_code,
                None, None, None, None, None)

\* Observation.from_fhir(fhir_data), with the clock reading clock and the
\* uuid counter at uuid
ObservationFromFhir(fhir_data, clock, uuid) ==
    LET cats == Get(fhir_data, "category", L(<<>>))
        categories ==
            L([n \in 1..Len(cats.l) |-> CodeableConceptFrom(cats.l[n])])
        code == CodeableConceptFrom(Get(fhir_data, "code", EmptyDict))
        subject == Get(fhir_data, "subject", EmptyDict)
        patient_id ==
            IF /\ TruthyDict(subject)
               /\ "reference" \in DOMAIN subject
               /\ StartsWith(subject["reference"].s, "Patient/")
            THEN S(SplitSlash1(subject["reference"].s))
            ELSE S("")
        observation_type ==
            IF Truthy(code.coding) /\ Len(code.coding.l) > 0
            THEN Get(code.coding.l[1], "code", S("unknown"))
            ELSE S("unknown")
        value == ExtractValue(fhir_data)
        comps == Get(fhir_data, "component", L(<<>>))
        components ==
            L([n \in 1..Len(comps.l) |-> ExtractComponent(comps.l[n])])
        data_absent_reason ==
            IF "dataAbsentReason" \in DOMAIN fhir_data
            THEN CodeableConceptFrom(fhir_data["dataAbsentReason"])
            ELSE None
        interps == Get(fhir_data, "interpretation", L(<<>>))
        interpretations ==
            L([n \in 1..Len(interps.l) |-> CodeableConceptFrom(interps.l[n])])
        body_site ==
            IF "bodySite" \in DOMAIN fhir_data
            THEN CodeableConceptFrom(fhir_data["bodySite"]) ELSE None
        method ==
            IF "method" \in DOMAIN fhir_data
            THEN CodeableConceptFrom(fhir_data["method"]) ELSE None
    IN Observation(
         [observation_id |-> Get(fhir_data, "id", Uuid4(uuid)),
          status |-> Get(fhir_data, "status", S("unknown")),
          category |-> categories,
          code |-> code,
          subject |-> subject,
          patient_id |-> patient_id,
          encounter |-> Get(fhir_data, "encounter", None),
          effective_date_time |->
              Get(fhir_data, "effectiveDateTime", UtcNowIso(clock)),
          timestamp |-> UtcNowIso(clock),
          issued |-> Get(fhir_data, "issued", UtcNowIso(clock)),
          performer |-> Get(fhir_data, "performer", None),
          value_quantity |-> value.value_quantity,
          value_string |-> value.value_string,
          value_boolean |-> value.value_boolean,
          value_integer |-> value.value_integer,
          value_codeable_concept |-> value.value_codeable_concept,
          data_absent_reason |-> data_absent_reason,
          interpretation |->
              IF Truthy(interpretations) THEN interpretations ELSE None,
          note |-> Get(fhir_data, "note", None),
          body_site |-> body_site,
          method |-> method,
          specimen |-> Get(fhir_data, "specimen", None),
          device |-> Get(fhir_data, "device", None),
          reference_range |-> Get(fhir_data, "referenceRange", None),
          has_member |-> Get(fhir_data, "hasMember", None),
          derived_from |-> Get(fhir_data, "derivedFrom", None),
          component |-> IF Truthy(components) THEN components ELSE None,
          observation_type |-> observation_type,
          created_at |-> UtcNowIso(clock),
          updated_at |-> UtcNowIso(clock)])

(***************************************************************************)
(* src/api/models/patient.py: the resource model and its codec.            *)
(***************************************************************************)
\* Identifier(system=..., value=..., type=..., use=...)
Identifier(system, value, type, use) ==
    [t |-> "Identifier", system |-> system, value |-> value,
     type |-> type, use |-> use]

\* HumanName(family=..., given=..., prefix=..., suffix=..., use=...)
HumanName(family, given, prefix, suffix, use) ==
    [t |-> "HumanName", family |-> family, given |-> given,
     prefix |-> prefix, suffix |-> suffix, use |-> use]

\* Address(line=..., city=..., state=..., postal_code=..., country=..., use=...)
Address(line, city, state, postal_code, country, use) ==
    [t |-> "Address", line |-> line, city |-> city, state |-> state,
     postal_code |-> postal_code, country |-> country, use |-> use]

\* ContactPoint(system=..., value=..., use=..., rank=...)
ContactPoint(system, value, use, rank) ==
    [t |-> "ContactPoint", system |-> system, value |-> value,
     use |-> use, rank |-> rank]

\* @validator("birth_date"): the error raised, or None
validate_birth_date(v) ==
    IF StrpTimeYmd(v.s) = -1
    THEN Err("birth_date must be in YYYY-MM-DD format")
    ELSE None

\* @validator("deceased_date"), given the already validated fields: values
\* holds birth_date only if that field passed its validator
validate_deceased_date(v, values) ==
    IF v = None THEN None
    ELSE IF StrpTimeYmd(v.s) = -1
    THEN Err("deceased_date must be in YYYY-MM-DD format")
    ELSE IF "birth_date" \notin DOMAIN values
    THEN Err("KeyError: 'birth_date'")
    ELSE IF StrpTimeYmd(v.s) < StrpTimeYmd(values["birth_date"].s)
    THEN Err("deceased_date cannot be before birth_date")
    ELSE None

\* Patient(**f): the pydantic constructor. The validators run in field
\* order; an exception that is not a ValueError leaves the constructor at
\* once, the ValueErrors are reported together (the first is kept here).
Patient(f) ==
    LET birth == validate_birth_date(f.birth_date)
        values == IF birth = None THEN [birth_date |-> f.birth_date]
                  ELSE EmptyDict
        death == validate_deceased_date(f.deceased_date, values)
    IN IF death # None /\ death.msg = "KeyError: 'birth_date'" THEN death
       ELSE IF birth # None THEN birth
       ELSE IF death # None THEN death
       ELSE [t |-> "Patient"] @@ f

\* one element of "identifier" in to_fhir
IdentifierToFhir(identifier) ==
    [system |-> identifier.system,
     value |-> identifier.value,
     type |-> IF Truthy(identifier.type)
              THEN [coding |-> L(<<[code |-> identifier.type]>>)]
              ELSE None,
     use |-> identifier.use]

\* one element of "name" in to_fhir
HumanNameToFhir(name) ==
    [family |-> name.family, given |-> name.given, prefix |-> name.prefix,
     suffix |-> name.suffix, use |-> name.use]

\* one element of "address" in to_fhir
AddressToFhir(address) ==
    [line |-> address.line, city |-> address.city, state |-> address.state,
     postalCode |-> address.postal_code, country |-> address.country,
     use |-> address.use]

\* one element of "telecom" in to_fhir
ContactPointToFhir(contact) ==
    [system |-> contact.system, value |-> contact.value,
     use |-> contact.use, rank |-> contact.rank]

\* (xs or [])
OrEmpty(xs) == IF Truthy(xs) THEN xs ELSE L(<<>>)

\* Patient.to_fhir(self)
PatientToFhir(self) ==
    LET fhir_patient ==
            [resourceType |-> S("Patient"),
             id |-> self.patient_id,
             meta |-> [versionId |-> self.version,
                       lastUpdated |-> self.updated_at],
             active |-> self.active,
             identifier |->
                 L([n \in 1..Len(self.identifiers.l) |->
                       IdentifierToFhir(self.identifiers.l[n])]),
             name |->
                 L([n \in 1..Len(self.name.l) |->
                       HumanNameToFhir(self.name.l[n])]),
             gender |-> self.gender,
             birthDate |-> self.birth_date,
             deceasedBoolean |-> self.deceased,
             deceasedDateTime |-> self.deceased_date,
             address |->
                 L([n \in 1..Len(OrEmpty(self.address).l) |->
                       AddressToFhir(self.address.l[n])]),
             telecom |->
                 L([n \in 1..Len(OrEmpty(self.telecom).l) |->
                       ContactPointToFhir(self.telecom.l[n])]),
             maritalStatus |->
                 IF Truthy(self.marital_status)
                 THEN [coding |-> L(<<[code |-> self.marital_status]>>)]
                 ELSE None,
             communication |-> self.communication,
             extension |-> self.extension]
    IN \* Remove None values
       DropNone(fhir_patient)

\* d.get(k) is truthy, for a d[k] that is a dict or None
TruthyDictAt(d, k) == Get(d, k, None) # None /\ TruthyDict(d[k])

\* the code of the first coding of d[k], where d[k] is absent, None or a
\* dict that may hold a "coding" list:
\*   if d.get(k) and d[k].get("coding"): d[k]["coding"][0].get("code")
FirstCodingCode(d, k) ==
    IF TruthyDictAt(d, k) /\ Truthy(Get(d[k], "coding", None))
    THEN Get(d[k]["coding"].l[1], "code", None)
    ELSE None

\* one iteration of the identifier loop of from_fhir
IdentifierFrom(identifier) ==
    Identifier(Get(identifier, "system", S("")),
               Get(identifier, "value", S("")),
               FirstCodingCode(identifier, "type"),
               Get(identifier, "use", None))

\* one iteration of the name loop of from_fhir
HumanNameFrom(name) ==
    HumanName(Get(name, "family", S("")), Get(name, "given", L(<<>>)),
              Get(name, "prefix", None), Get(name, "suffix", None),
              Get(name, "use", S("official")))

\* one iteration of the address loop of from_fhir
AddressFrom(address) ==
    Address(Get(address, "line", L(<<>>)), Get(address, "city", S("")),
            Get(address, "state", S("")), Get(address, "postalCode", S("")),
            Get(address, "country", S("")), Get(address, "use", S("home")))

\* one iteration of the telecom loop of from_fhir
ContactPointFrom(telecom) ==
    ContactPoint(Get(telecom, "system", S("")), Get(telecom, "value", S("")),
                 Get(telecom, "use", S("home")), Get(telecom, "rank", None))

\* the deceased block with the second test written as elif: the date is
\* read only when deceasedBoolean is absent
ExtractDeceasedElif(fhir_data) ==
    IF "deceasedBoolean" \in DOMAIN fhir_data
    THEN [deceased |-> fhir_data["deceasedBoolean"], deceased_date |-> None]
    ELSE IF "deceasedDateTime" \in DOMAIN fhir_data
    THEN [deceased |-> B(TRUE),
          deceased_date |-> fhir_data["deceasedDateTime"]]
    ELSE [deceased |-> B(FALSE), deceased_date |-> None]

\* the deceased block of from_fhir: deceasedBoolean is read first, then a
\* deceasedDateTime overrides it
ExtractDeceased(fhir_data) ==
    LET deceased0 == IF "deceasedBoolean" \in DOMAIN fhir_data
                     THEN fhir_data["deceasedBoolean"] ELSE B(FALSE)
    IN IF "deceasedDateTime" \in DOMAIN fhir_data
       THEN [deceased |-> B(TRUE),
             deceased_date |-> fhir_data["deceasedDateTime"]]
       ELSE [deceased |-> deceased0, deceased_date |-> None]

\* Patient.from_fhir(fhir_data), with the clock reading clock and the uuid
\* counter at uuid
PatientFromFhir(fhir_data, clock, uuid) ==
    LET ids == Get(fhir_data, "identifier", L(<<>>))
        identifiers == L([n \in 1..Len(ids.l) |-> IdentifierFrom(ids.l[n])])
        nms == Get(fhir_data, "name", L(<<>>))
        names == L([n \in 1..Len(nms.l) |-> HumanNameFrom(nms.l[n])])
        ads == Get(fhir_data, "address", L(<<>>))
        addresses == L([n \in 1..Len(ads.l) |-> AddressFrom(ads.l[n])])
        tls == Get(fhir_data, "telecom", L(<<>>))
        telecoms == L([n \in 1..Len(tls.l) |-> ContactPointFrom(tls.l[n])])
        marital_status == FirstCodingCode(fhir_data, "maritalStatus")
        dec == ExtractDeceased(fhir_data)
    IN Patient(
         [patient_id |-> Get(fhir_data, "id", Uuid4(uuid)),
          version |-> Get(Get(fhir_data, "meta", EmptyDict), "versionId",
                          UtcNowIso(clock)),
          active |-> Get(fhir_data, "active", B(TRUE)),
          identifiers |-> identifiers,
          name |-> names,
          gender |-> Get(fhir_data, "gender", S("unknown")),
          birth_date |-> Get(fhir_data, "birthDate", S("")),
          deceased |-> dec.deceased,
          deceased_date |-> dec.deceased_date,
          address |-> IF Truthy(addresses) THEN addresses ELSE None,
          telecom |-> IF Truthy(telecoms) THEN telecoms ELSE None,
          marital_status |-> marital_status,
          communication |-> Get(fhir_data, "communication", None),
          extension |-> Get(fhir_data, "extension", None),
          created_at |-> UtcNowIso(clock),
          updated_at |-> UtcNowIso(clock)])

(***************************************************************************)
(* src/core/fhir/validators.py: FHIRValidator. The resources it is given   *)
(* are FHIR resource objects: records of attributes, None when unset.      *)
(***************************************************************************)
\* ValidationError(message, errors) as raised, or the return without one;
\* errors is the list the validator collected in either case
ValidationOutcome(message, errors) ==
    IF errors # <<>>
    THEN [t |-> "ValidationError", message |-> message, errors |-> errors]
    ELSE [t |-> "returned", errors |-> errors]

\* errors.append(msg) if cond
ErrorIf(cond, msg) == IF cond THEN <<msg>> ELSE <<>>

\* the loop over patient.name, from its n-th element on
RECURSIVE PatientNameLoop(_, _)
PatientNameLoop(names, n) ==
    IF n > Len(names) THEN <<>>
    ELSE ErrorIf(~Truthy(names[n].family),
                 "Patient name must have a family name")
         \o ErrorIf(~Truthy(names[n].given),
                    "Patient name must have at least one given name")
         \o PatientNameLoop(names, n + 1)

\* "Validate name"
PatientNameErrors(patient) ==
    IF ~Truthy(patient.name)
    THEN <<"Patient must have at least one name">>
    ELSE PatientNameLoop(patient.name.l, 1)

\* "Validate gender"
PatientGenderErrors(patient) ==
    IF ~Truthy(patient.gender) THEN <<"Patient gender is required">>
    ELSE ErrorIf(patient.gender \notin
                     {S("male"), S("female"), S("other"), S("unknown")},
                 "Patient gender must be 'male', 'female', 'other', or 'unknown'")

\* "Validate birth date"
PatientBirthDateErrors(patient) ==
    IF ~Truthy(patient.birthDate) THEN <<"Patient birth date is required">>
    ELSE ErrorIf(StrpTimeYmd(patient.birthDate.s) = -1,
                 "Patient birth date must be in YYYY-MM-DD format")

\* the loop over patient.identifier, from its n-th element on
RECURSIVE PatientIdentifierLoop(_, _)
PatientIdentifierLoop(identifiers, n) ==
    IF n > Len(identifiers) THEN <<>>
    ELSE ErrorIf(~Truthy(identifiers[n].system),
                 "Patient identifier must have a system")
         \o ErrorIf(~Truthy(identifiers[n].value),
                    "Patient identifier must have a value")
         \o PatientIdentifierLoop(identifiers, n + 1)

\* "Validate identifiers"
PatientIdentifierErrors(patient) ==
    IF ~Truthy(patient.identifier)
    THEN <<"Patient must have at least one identifier">>
    ELSE PatientIdentifierLoop(patient.identifier.l, 1)

\* the errors list validate_patient has collected when it reaches its end
PatientErrors(patient) ==
    ErrorIf(patient.resource_type # S("Patient"),
            "Resource type must be 'Patient'")
    \o ErrorIf(~Truthy(patient.id), "Patient ID is required")
    \o PatientNameErrors(patient)
    \o PatientGenderErrors(patient)
    \o PatientBirthDateErrors(patient)
    \o PatientIdentifierErrors(patient)

\* FHIRValidator.validate_patient(patient)
validate_patient(patient) ==
    ValidationOutcome("Patient validation failed", PatientErrors(patient))

\* "Validate status"
ObservationStatusErrors(observation) ==
    IF ~Truthy(observation.status) THEN <<"Observation status is required">>
    ELSE ErrorIf(observation.status \notin valid_statuses,
                 "Observation status is invalid")

\* the loop over observation.code.coding, from its n-th element on
RECURSIVE ObservationCodingLoop(_, _)
ObservationCodingLoop(codings, n) ==
    IF n > Len(codings) THEN <<>>
    ELSE ErrorIf(~Truthy(codings[n].system),
                 "Observation code coding must have a system")
         \o ErrorIf(~Truthy(codings[n].code),
                    "Observation code coding must have a code")
         \o ObservationCodingLoop(codings, n + 1)

\* "Validate code"
ObservationCodeErrors(observation) ==
    IF ~Truthy(observation.code) THEN <<"Observation code is required">>
    ELSE IF ~Truthy(observation.code.coding)
    THEN <<"Observation code must have at least one coding">>
    ELSE ObservationCodingLoop(observation.code.coding.l, 1)

\* "Validate subject"
ObservationSubjectErrors(observation) ==
    IF ~Truthy(observation.subject)
    THEN <<"Observation subject is required">>
    ELSE IF ~Truthy(observation.subject.reference)
    THEN <<"Observation subject reference is required">>
    ELSE ErrorIf(~StartsWith(observation.subject.reference.s, "Patient/"),
                 "Observation subject reference must be a Patient")

\* "Validate effective date/time"
ObservationEffectiveErrors(observation) ==
    IF ~Truthy(observation.effectiveDateTime)
       /\ ~Truthy(observation.effectivePeriod)
    THEN <<"Observation must have an effective date/time or period">>
    ELSE IF Truthy(observation.effectiveDateTime)
    THEN ErrorIf(~FromIsoFormatOk(ReplaceZ(observation.effectiveDateTime.s)),
                 "Observation effective date/time must be in ISO format")
    ELSE <<>>

\* "Validate value": has_value is the or-chain over the value attributes,
\* whose truth value is that of its first truthy operand
ObservationValueErrors(observation) ==
    LET has_value ==
            \/ Truthy(observation.valueQuantity)
            \/ Truthy(observation.valueCodeableConcept)
            \/ Truthy(observation.valueString)
            \/ Truthy(observation.valueBoolean)
            \/ Truthy(observation.valueInteger)
            \/ Truthy(observation.valueRange)
            \/ Truthy(observation.valueRatio)
            \/ Truthy(observation.valueSampledData)
            \/ Truthy(observation.valueTime)
            \/ Truthy(observation.valueDateTime)
            \/ Truthy(observation.valuePeriod)
        has_data_absent_reason == observation.dataAbsentReason # None
        has_component ==
            Truthy(observation.component)
            /\ Len(observation.component.l) > 0
    IN ErrorIf(~has_value /\ ~has_data_absent_reason /\ ~has_component,
               "Observation must have a value, data absent reason, or component")

\* the errors list validate_observation has collected when it reaches its
\* end
ObservationErrors(observation) ==
    ErrorIf(observation.resource_type # S("Observation"),
            "Resource type must be 'Observation'")
    \o ErrorIf(~Truthy(observation.id), "Observation ID is required")
    \o ObservationStatusErrors(observation)
    \o ObservationCodeErrors(observation)
    \o ObservationSubjectErrors(observation)
    \o ObservationEffectiveErrors(observation)
    \o ObservationValueErrors(observation)

\* a validator that stops at the first failing rule
validate_observation_first_only(observation) ==
    ValidationOutcome("Observation validation failed",
                      SubSeq(ObservationErrors(observation), 1, 1))

\* FHIRValidator.validate_observation(observation)
validate_observation(observation) ==
    ValidationOutcome("Observation validation failed",
                      ObservationErrors(observation))

(***************************************************************************)
(* The tables and the streams (boto3): src/api/handlers/fhir_handler.py.   *)
(* A table is the set of its items; its primary key is the partition key   *)
(* with the sort key (src/infrastructure/constructs/dynamo_tables.py).      *)
(* Table reads and writes succeed; put_record on a stream may fail.        *)
(***************************************************************************)
\* the characters of the sort keys in code point order
AsciiOrder == "-0123456789:T"

CharCode(c) == IndexOf(AsciiOrder, c, 1)

\* a < b for two strings, compared code point by code point as the table
\* orders its sort keys
RECURSIVE StrLess(_, _)
StrLess(a, b) ==
    IF b = "" THEN FALSE
    ELSE IF a = "" THEN TRUE
    ELSE LET x == CharCode(SubSeq(a, 1, 1))
             y == CharCode(SubSeq(b, 1, 1))
         IN IF x # y THEN x < y
            ELSE StrLess(SubSeq(a, 2, Len(a)), SubSeq(b, 2, Len(b)))

\* table.put_item(Item=item): the item replaces the one with its key
PutItem(table, item, pk, sk) ==
    {i \in table : ~(i[pk] = item[pk] /\ i[sk] = item[sk])} \cup {item}

\* items by ascending sort key
RECURSIVE SortAscending(_, _)
SortAscending(items, sk) ==
    IF items = {} THEN <<>>
    ELSE LET low == CHOOSE i \in items :
                        \A j \in items : ~StrLess(j[sk].s, i[sk].s)
         IN <<low>> \o SortAscending(items \ {low}, sk)

\* items by descending sort key (ScanIndexForward=False)
RECURSIVE SortDescending(_, _)
SortDescending(items, sk) ==
    IF items = {} THEN <<>>
    ELSE LET top == CHOOSE i \in items :
                        \A j \in items : ~StrLess(i[sk].s, j[sk].s)
         IN <<top>> \o SortDescending(items \ {top}, sk)

\* table.query(KeyConditionExpression="pk = :v", ScanIndexForward=False,
\* Limit=limit)["Items"]
Query(table, pk, v, sk, limit) ==
    LET found == SortDescending({i \in table : i[pk] = v}, sk)
    IN SubSeq(found, 1, IF Len(found) < limit THEN Len(found) ELSE limit)

\* a lookup that ignores the partition key
get_patient_any_id(patient_id) ==
    LET items == SortDescending(patient_table, "version")
    IN IF items = <<>> THEN None ELSE items[1]

\* get_patient(patient_id)
get_patient(patient_id) ==
    LET items == Query(patient_table, "patient_id", patient_id, "version", 1)
    IN IF items = <<>> THEN None ELSE items[1]

\* get_observation(observation_id)
get_observation(observation_id) ==
    LET items == Query(observation_table, "observation_id", observation_id,
                       "timestamp", 1)
    IN IF items = <<>> THEN None ELSE items[1]

\* get_patient_observations(patient_id, limit=100)
get_patient_observations(patient_id) ==
    L(Query(observation_table, "patient_id", patient_id, "timestamp", 100))

\* a record put on a stream: kinesis.put_record(Data=data, PartitionKey=key)
StreamRecord(key, data) == [PartitionKey |-> key, Data |-> data]

\* botocore's error of a failed put_record
ClientError == Err("ClientError")

\* the exception is a ValueError (pydantic's ValidationError is one)
IsValueError(e) == e.msg \notin {"ClientError", "KeyError: 'birth_date'"}

\* handler(): the HTTP status of a request that returned ok or raised e
StatusCode(ok, e) ==
    IF ~IsErr(e) THEN ok ELSE IF IsValueError(e) THEN 400 ELSE 500

\* what the caller of a served request got: the value returned or the
\* exception raised, with the HTTP status handler() answers
Served(op, arg, result, ok) ==
    [op |-> op, arg |-> arg, result |-> result,
     statusCode |-> StatusCode(ok, result)]

\* a writing request between its put_item and its return
InFlight(op, arg, item) ==
    [op |-> op, arg |-> arg, result |-> item, statusCode |-> 0]

(***************************************************************************)
(* FHIRValidator.validate_identifier (src/core/fhir/validators.py).        *)
(***************************************************************************)
UpperLetters == "ABCDEFGHIJKLMNOPQRSTUVWXYZ"

\* the character class [A-Z]
IsUpper(c) == \E n \in 1..Len(UpperLetters) : SubSeq(UpperLetters, n, n) = c

\* \d{k} matches str at position p
DigitRun(str, p, k) ==
    /\ p + k - 1 <= Len(str)
    /\ AllDigits(SubSeq(str, p, p + k - 1))

\* the literal ch matches str at position p
CharAt(str, p, ch) == p <= Len(str) /\ SubSeq(str, p, p) = ch

\* the position that is the end of str
EndOfString(str) == {Len(str) + 1}

\* the positions of str where $ of re.match without re.MULTILINE matches:
\* the end of str, and before a newline that is the last character of str
Dollar(str) ==
    EndOfString(str)
    \cup {p \in {Len(str)} : p >= 1 /\ SubSeq(str, p, p) = "\n"}

\* ^\d{3}-\d{2}-\d{4} and then one of the positions ends
MatchSsn(str, ends) ==
    /\ DigitRun(str, 1, 3)
    /\ CharAt(str, 4, "-")
    /\ DigitRun(str, 5, 2)
    /\ CharAt(str, 7, "-")
    /\ DigitRun(str, 8, 4)
    /\ 12 \in ends

\* ^\d{1,9}[A-Z] and then one of the positions ends
MatchMedicare(str, ends) ==
    \E k \in 1..9 :
        /\ DigitRun(str, 1, k)
        /\ k + 1 <= Len(str)
        /\ IsUpper(SubSeq(str, k + 1, k + 1))
        /\ k + 2 \in ends

\* ^\d{10} and then one of the positions ends
MatchNpi(str, ends) == DigitRun(str, 1, 10) /\ 11 \in ends

\* str.endswith(suffix)
EndsWith(str, suffix) ==
    /\ Len(str) >= Len(suffix)
    /\ SubSeq(str, Len(str) - Len(suffix) + 1, Len(str)) = suffix

SsnSystem == S("http://hl7.org/fhir/sid/us-ssn")

MedicareSystem == S("http://hl7.org/fhir/sid/us-medicare")

NpiSystem == S("http://hl7.org/fhir/sid/us-npi")

\* validate_identifier(identifier, system)
validate_identifier(identifier, system) ==
    IF ~Truthy(identifier) THEN B(FALSE)
    ELSE IF system = SsnSystem THEN B(MatchSsn(identifier.s, Dollar(identifier.s)))
    ELSE IF system = MedicareSystem
    THEN B(MatchMedicare(identifier.s, Dollar(identifier.s)))
    ELSE IF system = NpiSystem THEN B(MatchNpi(identifier.s, Dollar(identifier.s)))
    ELSE IF EndsWith(system.s, "/mrn") THEN B(Truthy(identifier))
    ELSE B(Truthy(identifier))

(***************************************************************************)
(* src/api/handlers/ml_handler.py and src/api/models/prediction.py:        *)
(* feature extraction and the creation of a prediction.                    *)
(***************************************************************************)
\* a Python float, written as its decimal literal
F(x) == [t |-> "float", f |-> x]

\* str.replace(old, ""): every occurrence of old is removed, left to right
RECURSIVE RemoveAll(_, _)
RemoveAll(str, old) ==
    IF Len(str) < Len(old) THEN str
    ELSE IF SubSeq(str, 1, Len(old)) = old
    THEN RemoveAll(SubSeq(str, Len(old) + 1, Len(str)), old)
    ELSE SubSeq(str, 1, 1) \o RemoveAll(SubSeq(str, 2, Len(str)), old)

\* the whole of str, not split
Unsplit(str) == str

\* str.split("-")[0]
SplitDash0(str) ==
    LET a == IndexOf(str, "-", 1)
    IN IF a = 0 THEN str ELSE SubSeq(str, 1, a - 1)

\* datetime.now().year at clock reading clock
CurrentYear(clock) == ToNat(SubSeq(UtcNowIso(clock).s, 1, 4))

\* the characters str.strip() removes
IsSpace(c) == c \in {" ", "\t", "\n"}

\* str.strip()
RECURSIVE Strip(_)
Strip(str) ==
    IF str # "" /\ IsSpace(SubSeq(str, 1, 1))
    THEN Strip(SubSeq(str, 2, Len(str)))
    ELSE IF str # "" /\ IsSpace(SubSeq(str, Len(str), Len(str)))
    THEN Strip(SubSeq(str, 1, Len(str) - 1))
    ELSE str

\* digits, with single underscores between them allowed
IsDigitGroups(str) ==
    /\ str # ""
    /\ IsDigit(SubSeq(str, 1, 1))
    /\ IsDigit(SubSeq(str, Len(str), Len(str)))
    /\ \A p \in 1..Len(str) :
          \/ IsDigit(SubSeq(str, p, p))
          \/ /\ SubSeq(str, p, p) = "_"
             /\ IsDigit(SubSeq(str, p + 1, p + 1))

\* int(str): surrounding whitespace, a sign and underscores between digits
\* are accepted; anything else is a ValueError
IntOf(str) ==
    LET stripped == Strip(str)
        signed == stripped # "" /\ SubSeq(stripped, 1, 1) \in {"+", "-"}
        body == IF signed THEN SubSeq(stripped, 2, Len(stripped))
                ELSE stripped
        n == ToNat(RemoveAll(body, "_"))
    IN IF ~IsDigitGroups(body)
       THEN Err("ValueError: invalid literal for int() with base 10")
       ELSE IF signed /\ SubSeq(stripped, 1, 1) = "-" THEN I(0 - n)
       ELSE I(n)

\* calculate_age(birth_date): None when the try block raises (split of
\* something that is not a str, int() of something that is not a number)
calculate_age(birth_date, clock) ==
    IF ~Truthy(birth_date) THEN None
    ELSE IF birth_date.t # "str" THEN None
    ELSE LET birth_year == IntOf(SplitDash0(birth_date.s))
         IN IF IsErr(birth_year) THEN None
            ELSE I(CurrentYear(clock) - birth_year.i)

vital_sign_types ==
    {"heart-rate", "blood-pressure", "respiratory-rate", "temperature",
     "oxygen-saturation"}

\* the exception of d[k] for a dict d without the key k
KeyError(k) == Err("KeyError: '" \o k \o "'")

\* the value taken by truth value: a quantity that is set, else an integer
\* that is not zero
FeatureValueTruthy(obs) ==
    IF TruthyDictAt(obs, "value_quantity")
    THEN Get(obs["value_quantity"], "value", KeyError("value"))
    ELSE IF Truthy(Get(obs, "value_integer", None))
    THEN obs["value_integer"]
    ELSE None

\* the value a vital sign or lab observation contributes, or None; a
\* value_quantity dict without "value" raises
FeatureValue(obs) ==
    IF TruthyDictAt(obs, "value_quantity")
    THEN IF "value" \in DOMAIN obs["value_quantity"]
         THEN obs["value_quantity"]["value"]
         ELSE KeyError("value")
    ELSE IF "value_integer" \in DOMAIN obs /\ obs["value_integer"] # None
    THEN obs["value_integer"]
    ELSE None

\* readings[obs_type].append({"value": value, "timestamp": ...}), the list
\* being created first if obs_type is not a key of readings
AppendReading(readings, obs_type, obs, value) ==
    LET reading == [value |-> value, timestamp |-> obs["timestamp"]]
        before == IF obs_type \in DOMAIN readings
                  THEN readings[obs_type].l ELSE <<>>
    IN (obs_type :> L(Append(before, reading))) @@ readings

\* the branch of a vital sign or lab observation: its reading is appended
\* to readings when it has a value; obs["timestamp"] raises without the key
ExtractReading(readings, obs_type, obs) ==
    LET value == FeatureValue(obs)
    IN IF IsErr(value) THEN value
       ELSE IF value = None THEN readings
       ELSE IF "timestamp" \notin DOMAIN obs THEN KeyError("timestamp")
       ELSE AppendReading(readings, obs_type, obs, value)

\* names.append(name) unless name is in names
AppendNew(names, name) ==
    IF \E n \in 1..Len(names.l) : names.l[n] = name THEN names
    ELSE L(Append(names.l, name))

\* with(features, k, v): features with v under k, or the exception v
With(features, k, v) ==
    IF IsErr(v) THEN v ELSE [features EXCEPT ![k] = v]

\* one pass of the loop of extract_features; an observation_type that is
\* not a str and not a vital sign type has no startswith
ExtractOne(features, obs) ==
    LET type == Get(obs, "observation_type", S("unknown"))
        obs_type == type.s
    IN IF type.t = "str" /\ obs_type \in vital_sign_types
       THEN With(features, "vital_signs",
                 ExtractReading(features.vital_signs, obs_type, obs))
       ELSE IF type.t # "str"
       THEN Err("AttributeError: object has no attribute 'startswith'")
       ELSE IF StartsWith(obs_type, "lab-")
       THEN With(features, "lab_results",
                 ExtractReading(features.lab_results, obs_type, obs))
       ELSE IF StartsWith(obs_type, "condition-")
       THEN [features EXCEPT !.conditions =
                AppendNew(@, S(RemoveAll(obs_type, "condition-")))]
       ELSE IF StartsWith(obs_type, "medication-")
       THEN [features EXCEPT !.medications =
                AppendNew(@, S(RemoveAll(obs_type, "medication-")))]
       ELSE features

\* the loop of extract_features from the n-th observation on, ended by the
\* first exception
RECURSIVE ExtractLoop(_, _, _)
ExtractLoop(features, observations, n) ==
    IF IsErr(features) \/ n > Len(observations) THEN features
    ELSE ExtractLoop(ExtractOne(features, observations[n]), observations,
                     n + 1)

\* extract_features(patient, observations) at clock reading clock
extract_features(patient, observations, clock) ==
    ExtractLoop(
        [demographics |->
             [gender |-> Get(patient, "gender", None),
              age |-> calculate_age(Get(patient, "birth_date", S("")),
                                    clock),
              deceased |-> Get(patient, "deceased", B(FALSE))],
         vital_signs |-> EmptyDict,
         lab_results |-> EmptyDict,
         medications |-> L(<<>>),
         conditions |-> L(<<>>)],
        observations.l, 1)

\* call_ml_model(model_id, features): the mock prediction of the model, or
\* the ValueError for a model that is not known
call_ml_model(model_id, features) ==
    LET factor(name, importance, direction) ==
            [name |-> S(name), importance |-> F(importance),
             direction |-> S(direction)]
    IN IF model_id = S("risk-predictor")
       THEN [prediction |-> S("medium-risk"),
             probability |-> F("0.65"),
             scores |-> ("low-risk" :> F("0.15"))
                        @@ ("medium-risk" :> F("0.65"))
                        @@ ("high-risk" :> F("0.20")),
             explanation |->
                 [factors |->
                      L(<<factor("age", "0.3", "positive"),
                          factor("blood-pressure", "0.25", "positive"),
                          factor("heart-rate", "0.2", "negative")>>)],
             thresholds |-> ("low-risk" :> F("0.3"))
                            @@ ("medium-risk" :> F("0.6"))
                            @@ ("high-risk" :> F("0.8"))]
       ELSE IF model_id = S("condition-classifier")
       THEN [prediction |-> S("type-2-diabetes"),
             probability |-> F("0.78"),
             scores |-> ("type-2-diabetes" :> F("0.78"))
                        @@ ("hypertension" :> F("0.45"))
                        @@ ("coronary-artery-disease" :> F("0.30")),
             explanation |->
                 [factors |->
                      L(<<factor("glucose-level", "0.4", "positive"),
                          factor("age", "0.2", "positive"),
                          factor("bmi", "0.25", "positive")>>)],
             thresholds |-> ("positive" :> F("0.7"))]
       ELSE Err("Unknown model ID: " \o model_id.s)

\* Prediction(...).to_dict() as create_prediction builds it
PredictionDict(request, prediction_id, observations, features, prediction_result, timestamp) ==
    [prediction_id |-> prediction_id,
     model_id |-> request.model_id,
     model_version |-> S("1.0.0"),
     patient_id |-> request.patient_id,
     timestamp |-> timestamp,
     prediction_type |-> IF request.model_id = S("risk-predictor")
                         THEN S("risk") ELSE S("diagnosis"),
     input_data |->
         [patient_id |-> request.patient_id,
          observation_ids |->
              IF request.observation_ids = None
              THEN L([n \in 1..Len(observations.l) |->
                         observations.l[n]["observation_id"]])
              ELSE request.observation_ids,
          features |-> features,
          context |-> request.context],
     output_data |->
         [prediction |-> prediction_result["prediction"],
          probability |-> Get(prediction_result, "probability", None),
          scores |-> Get(prediction_result, "scores", None),
          explanation |-> Get(prediction_result, "explanation", None),
          thresholds |-> Get(prediction_result, "thresholds", None)],
     status |-> S("completed"),
     error |-> None,
     metadata |-> None,
     created_at |-> timestamp,
     updated_at |-> timestamp]

\* PredictionResponse(...).dict() of a stored prediction
PredictionResponse(prediction) ==
    [prediction_id |-> prediction.prediction_id,
     patient_id |-> prediction.patient_id,
     model_id |-> prediction.model_id,
     model_version |-> prediction.model_version,
     prediction_type |-> prediction.prediction_type,
     prediction |-> prediction.output_data.prediction,
     probability |-> prediction.output_data.probability,
     explanation |-> prediction.output_data.explanation,
     timestamp |-> prediction.timestamp]

\* create_prediction(request) up to its put_item: the dict to store, or the
\* ValueError raised before
NewPrediction(request, clock, uuid) ==
    LET patient == get_patient(request.patient_id)
        observations == get_patient_observations(request.patient_id)
        features == extract_features(patient, observations, clock)
        prediction_result == call_ml_model(request.model_id, features)
    IN IF patient = None
       THEN Err("Patient " \o request.patient_id.s \o " not found")
       ELSE IF IsErr(features) THEN features
       ELSE IF IsErr(prediction_result) THEN prediction_result
       ELSE PredictionDict(request, Uuid4(uuid), observations, features,
                           prediction_result, UtcNowIso(clock))

(***************************************************************************)
(* src/airflow/dags/etl_pipeline.py: the tasks of the DAG and their order. *)
(* A task instance is started by the scheduler when every upstream task    *)
(* has succeeded (the default trigger rule), is retried `retries` times    *)
(* after a failure, and is marked upstream_failed when an upstream task    *)
(* has failed for good.                                                    *)
(***************************************************************************)
LoadTasks == {"load_patients_to_redshift", "load_observations_to_redshift"}

Tasks ==
    {"extract_fhir_data", "transform_fhir_data", "validate_data"}
    \cup LoadTasks

\* the load tasks set downstream of the transformation
UpstreamOfTransformOnly(task) ==
    CASE task = "extract_fhir_data" -> {}
      [] task = "transform_fhir_data" -> {"extract_fhir_data"}
      [] OTHER -> {"transform_fhir_data"}

\* extract_task >> transform_task >> validate_task;
\* validate_task >> load_patients_task; validate_task >> load_observations_task
Upstream(task) ==
    CASE task = "extract_fhir_data" -> {}
      [] task = "transform_fhir_data" -> {"extract_fhir_data"}
      [] task = "validate_data" -> {"transform_fhir_data"}
      [] OTHER -> {"validate_data"}

\* default_args['retries']
retries == 1

S3_BUCKET == "medconnect-dev-data"

\* no run of the DAG has been scheduled
NoDagRun ==
    /\ task_state = [task \in Tasks |-> "none"]
    /\ try_number = [task \in Tasks |-> 0]
    /\ xcom = EmptyDict
    /\ s3 = EmptyDict

\* ti.xcom_push(key=key, value=value) by task, on the pushed values x
XcomPush(x, task, key, value) == ((task \o "." \o key) :> value) @@ x

\* ti.xcom_pull(task_ids=task, key=key): None when nothing was pushed
XcomPull(task, key) == Get(xcom, task \o "." \o key, None)

\* s3_hook.read_key(path.replace(f's3://{S3_BUCKET}/', ''), S3_BUCKET) and
\* json.loads of it, or the exception: of replace on a path that is None, of
\* read_key on a key that is not in the bucket
ReadJson(path) ==
    IF path = None
    THEN Err("AttributeError: 'NoneType' object has no attribute 'replace'")
    ELSE LET key == RemoveAll(path.s, "s3://" \o S3_BUCKET \o "/")
         IN IF key \in DOMAIN s3 THEN s3[key] ELSE ClientError

\* validate_data(**context): the dict returned, or the exception raised
validate_data ==
    LET patients == ReadJson(XcomPull("transform_fhir_data",
                                      "s3_patients_path"))
        observations == ReadJson(XcomPull("transform_fhir_data",
                                          "s3_observations_path"))
    IN IF IsErr(patients) THEN patients
       ELSE IF IsErr(observations) THEN observations
       ELSE IF ~Truthy(patients) \/ ~Truthy(observations)
       THEN Err("ValueError: Empty data sets detected")
       ELSE [patients_count |-> I(Len(patients.l)),
             observations_count |-> I(Len(observations.l)),
             validation_passed |-> B(TRUE)]

(***************************************************************************)
(* Inputs: the FHIR Observation payloads and constructor arguments the     *)
(* operations are applied to.                                              *)
(***************************************************************************)
\* every sequence over set of length at most n
SeqsUpTo(set, n) == UNION {[1..k -> set] : k \in 0..n}

\* the dicts that either lack key k or map it to one of vals
OptKey(k, vals) == {EmptyDict} \cup {k :> v : v \in vals}

WireCoding == [system |-> S("http://loinc.org"), code |-> S("heart-rate")]

WireConcept ==
    [coding |-> L(<<[system |-> S("http://snomed.info/sct"),
                     code |-> S("260385009")]>>),
     text |-> S("Negative")]

WireCategory ==
    [coding |-> L(<<[system |-> S("http://hl7.org/observation-category"),
                     code |-> S("vital-signs")]>>)]

WireQuantities ==
    {[value |-> I(0), unit |-> S("mg")],
     [value |-> I(98), unit |-> S("bpm"),
      system |-> S("http://unitsofmeasure.org"), code |-> S("/min")]}

\* every combination of the five value[x] keys, present or not
WireValues ==
    {a @@ b @@ c @@ d @@ e :
        a \in OptKey("valueQuantity", WireQuantities),
        b \in OptKey("valueString", {S(""), S("high")}),
        c \in OptKey("valueBoolean", {B(FALSE), B(TRUE)}),
        d \in OptKey("valueInteger", {I(0), I(7)}),
        e \in OptKey("valueCodeableConcept", {WireConcept})}

WireComponents ==
    {v @@ [code |-> [coding |-> L(<<WireCoding>>)]] :
        v \in {EmptyDict,
               [valueQuantity |-> [value |-> I(120), unit |-> S("mmHg")]],
               [valueString |-> S("")],
               [valueBoolean |-> B(FALSE)],
               [valueInteger |-> I(0)],
               [valueCodeableConcept |-> WireConcept],
               [valueString |-> S("high"), valueInteger |-> I(7)],
               [valueBoolean |-> B(TRUE),
                valueCodeableConcept |-> WireConcept]}}

WireObservationBase ==
    [resourceType |-> S("Observation"),
     id |-> S("obs-1"),
     status |-> S("final"),
     category |-> L(<<WireCategory>>),
     code |-> [coding |-> L(<<WireCoding>>), text |-> S("Heart rate")],
     subject |-> [reference |-> S("Patient/p1")],
     effectiveDateTime |-> S("2024-01-01T10:00:00")]

\* payloads whose header fields are present, absent or malformed
WireObservationHeaders ==
    {[resourceType |-> S("Observation")] @@ a @@ b @@ c @@ d @@ e :
        a \in OptKey("status", {S("final"), S("bogus")}),
        b \in OptKey("code",
                {[coding |-> L(<<>>)],
                 [coding |-> L(<<[system |-> S("http://loinc.org")]>>)],
                 [coding |-> L(<<WireCoding>>), text |-> S("Heart rate")]}),
        c \in OptKey("subject",
                {EmptyDict,
                 [reference |-> S("Patient/p1")],
                 [reference |-> S("Patient/p1/_history/2")],
                 [reference |-> S("Practitioner/d9")]}),
        d \in OptKey("effectiveDateTime",
                {S("2024-01-01T10:00:00"), S("yesterday")}),
        e \in {[valueInteger |-> I(0)],
               [id |-> S("obs-2"),
                category |-> L(<<WireCategory>>),
                dataAbsentReason |-> WireConcept,
                encounter |-> [reference |-> S("Encounter/e1")]]}}

WireObservations ==
    {v @@ WireObservationBase : v \in WireValues}
    \cup {("component" :> L(cs)) @@ WireObservationBase :
             cs \in SeqsUpTo(WireComponents, MaxList)}
    \cup WireObservationHeaders

\* constructor arguments: the value_* fields, any combination
ModelConcept ==
    CodeableConcept(L(<<[system |-> S("http://snomed.info/sct"),
                         code |-> S("260385009")]>>), S("Negative"))

ModelValues ==
    [value_quantity : {None, Quantity(I(0), S("mg"), None, None)},
     value_string : {None, S(""), S("high")},
     value_boolean : {None, B(FALSE), B(TRUE)},
     value_integer : {None, I(0), I(7)},
     value_codeable_concept : {None, ModelConcept}]

NoModelValue ==
    [value_quantity |-> None, value_string |-> None, value_boolean |-> None,
     value_integer |-> None, value_codeable_concept |-> None]

ModelComponents ==
    LET code == CodeableConcept(L(<<WireCoding>>), None)
    IN {ObservationComponent(code, None, None, None, None, None),
        ObservationComponent(code,
            Quantity(I(120), S("mmHg"), None, None), None, None, None, None),
        ObservationComponent(code, None, None, B(FALSE), None, None),
        ObservationComponent(code, None, S("high"), None, I(7), None)}

\* the remaining constructor arguments of an Observation of patient p1
ModelObservationBase(clock) ==
    [observation_id |-> S("obs-1"),
     status |-> S("final"),
     category |->
         L(<<CodeableConcept(WireCategory["coding"], None)>>),
     code |-> CodeableConcept(L(<<WireCoding>>), S("Heart rate")),
     subject |-> [reference |-> S("Patient/p1")],
     patient_id |-> S("p1"),
     encounter |-> None,
     effective_date_time |-> S("2024-01-01T10:00:00"),
     timestamp |-> UtcNowIso(clock),
     issued |-> UtcNowIso(clock),
     performer |-> None,
     data_absent_reason |-> None,
     interpretation |-> None,
     note |-> None,
     body_site |-> None,
     method |-> None,
     specimen |-> None,
     device |-> None,
     reference_range |-> None,
     has_member |-> None,
     derived_from |-> None,
     component |-> None,
     observation_type |-> S("heart-rate"),
     created_at |-> UtcNowIso(clock),
     updated_at |-> UtcNowIso(clock)]

ModelObservationArgs(clock) ==
    {v @@ ModelObservationBase(clock) : v \in ModelValues}
    \cup {[(v @@ ModelObservationBase(clock)) EXCEPT
              !.component = IF cs = <<>> THEN None ELSE L(cs),
              !.data_absent_reason = dar,
              !.encounter = enc] :
             v \in {NoModelValue,
                    [NoModelValue EXCEPT !.value_boolean = B(FALSE)]},
             cs \in SeqsUpTo(ModelComponents, MaxList),
             dar \in {None, ModelConcept},
             enc \in {None, [reference |-> S("Encounter/e1")]}}

(***************************************************************************)
(* Inputs: the FHIR Patient payloads and constructor arguments.            *)
(***************************************************************************)
WireIdentifiers ==
    {[system |-> S("http://hospital.org/mrn"), value |-> S("MRN-1"),
      type |-> [coding |-> L(<<[code |-> S("MR")]>>)], use |-> S("usual")],
     [system |-> S("http://hl7.org/fhir/sid/us-ssn"),
      value |-> S("123-45-6789")],
     [system |-> S("http://hospital.org/mrn"), value |-> S("MRN-2"),
      type |-> [coding |-> L(<<[code |-> S("")]>>)]],
     [system |-> S("http://hospital.org/mrn")]}

WireNames ==
    {[family |-> S("Doe"), given |-> L(<<S("John")>>),
      prefix |-> L(<<S("Dr")>>), use |-> S("usual")],
     [family |-> S("Doe"), given |-> L(<<S("John"), S("Q")>>)],
     [given |-> L(<<S("John")>>)],
     [family |-> S("Doe"), given |-> L(<<>>)]}

WireAddress ==
    [line |-> L(<<S("1 Main St")>>), city |-> S("Springfield"),
     state |-> S("IL"), postalCode |-> S("62701"), country |-> S("US")]

WireTelecoms ==
    {[system |-> S("phone"), value |-> S("555-0100"), use |-> S("work"),
      rank |-> I(1)],
     [system |-> S("email"), value |-> S("jd@example.org")]}

WirePatientBase ==
    [resourceType |-> S("Patient"),
     id |-> S("p1"),
     meta |-> [versionId |-> S("v1")],
     active |-> B(TRUE),
     identifier |->
         L(<<[system |-> S("http://hospital.org/mrn"),
              value |-> S("MRN-1")]>>),
     name |-> L(<<[family |-> S("Doe"), given |-> L(<<S("John")>>)]>>),
     gender |-> S("male"),
     birthDate |-> S("1970-06-15")]

\* the base payload without the keys ks
Without(d, ks) == [k \in DOMAIN d \ ks |-> d[k]]

WirePatients ==
    \* the deceased[x] keys against the birth date and the gender
    {a @@ b @@ c @@ d @@ Without(WirePatientBase, {"birthDate", "gender"}) :
        a \in OptKey("deceasedBoolean", {B(FALSE), B(TRUE)}),
        b \in OptKey("deceasedDateTime",
                {S("2020-01-01"), S("1960-12-31"),
                 S("2020-01-01T10:00:00")}),
        c \in OptKey("birthDate", {S("1970-06-15"), S("15/06/1970")}),
        d \in OptKey("gender", {S("female"), S("f")})}
    \* identifier and name lists
    \cup {("identifier" :> L(xs)) @@ WirePatientBase :
             xs \in SeqsUpTo(WireIdentifiers, MaxList)}
    \cup {("name" :> L(xs)) @@ WirePatientBase :
             xs \in SeqsUpTo(WireNames, MaxList)}
    \* the optional lists, marital status, id, version and active flag
    \cup {a @@ b @@ c @@ d @@ Without(WirePatientBase, {"id", "meta", "active"}) :
             a \in OptKey("address", {L(<<>>), L(<<WireAddress>>)}),
             b \in OptKey("telecom", {L(<<t>>) : t \in WireTelecoms}),
             c \in OptKey("maritalStatus",
                     {[coding |-> L(<<[code |-> S("M")]>>)],
                      [coding |-> L(<<[code |-> S("")]>>)],
                      [text |-> S("Married")]}),
             d \in {EmptyDict,
                    [id |-> S("p2"), meta |-> [versionId |-> S("v7")],
                     active |-> B(FALSE)]}}

\* the constructor arguments of a living patient without optional data
ModelPatientBase(clock) ==
    [patient_id |-> S("p1"),
     version |-> UtcNowIso(clock),
     active |-> B(TRUE),
     identifiers |->
         L(<<Identifier(S("http://hospital.org/mrn"), S("MRN-1"),
                        None, None)>>),
     name |->
         L(<<HumanName(S("Doe"), L(<<S("John")>>), None, None,
                       S("official"))>>),
     gender |-> S("male"),
     birth_date |-> S("1970-06-15"),
     deceased |-> B(FALSE),
     deceased_date |-> None,
     address |-> None,
     telecom |-> None,
     marital_status |-> None,
     communication |-> None,
     extension |-> None,
     created_at |-> UtcNowIso(clock),
     updated_at |-> UtcNowIso(clock)]

ModelAddress ==
    Address(L(<<S("1 Main St")>>), S("Springfield"), S("IL"), S("62701"),
            S("US"), S("home"))

ModelPatientArgs(clock) ==
    \* the deceased fields against the birth date
    {[ModelPatientBase(clock) EXCEPT
         !.deceased = dec, !.deceased_date = dd, !.birth_date = bd] :
        dec \in {B(FALSE), B(TRUE)},
        dd \in {None, S("2020-01-01"), S("1960-12-31"), S("01/01/2020")},
        bd \in {S("1970-06-15"), S("")}}
    \* the optional fields
    \cup {[ModelPatientBase(clock) EXCEPT
              !.identifiers = L(<<Identifier(S("http://hospital.org/mrn"),
                                             S("MRN-1"), ty, us)>>),
              !.name = L(<<HumanName(S("Doe"), L(<<S("John")>>), px, None,
                                     S("official"))>>),
              !.marital_status = ms,
              !.address = ad,
              !.telecom = tl] :
             ty \in {None, S(""), S("MR")},
             us \in {None, S("usual")},
             px \in {None, L(<<S("Dr")>>)},
             ms \in {None, S(""), S("M")},
             ad \in {None, L(<<>>), L(<<ModelAddress>>)},
             tl \in {None,
                     L(<<ContactPoint(S("phone"), S("555-0100"), S("home"),
                                      None)>>),
                     L(<<ContactPoint(S("phone"), S("555-0100"), S("work"),
                                      I(1))>>)}}

(***************************************************************************)
(* Inputs: the FHIR resource objects handed to the validator.              *)
(***************************************************************************)
FhirNames ==
    {[t |-> "HumanName", family |-> S("Doe"), given |-> L(<<S("John")>>)],
     [t |-> "HumanName", family |-> None, given |-> L(<<S("John")>>)],
     [t |-> "HumanName", family |-> S("Doe"), given |-> L(<<>>)],
     [t |-> "HumanName", family |-> S(""), given |-> None]}

FhirIdentifiers ==
    {[t |-> "Identifier", system |-> S("http://hospital.org/mrn"), value |-> S("MRN-1")],
     [t |-> "Identifier", system |-> None, value |-> S("MRN-1")],
     [t |-> "Identifier", system |-> S("http://hospital.org/mrn"), value |-> S("")]}

\* None, or a list of at most MaxList elements of set
OptListOf(set) == {None} \cup {L(xs) : xs \in SeqsUpTo(set, MaxList)}

FhirPatients ==
    [t : {"Patient"},
     resource_type : {S("Patient"), S("Observation")},
     id : {None, S("p1")},
     name : OptListOf(FhirNames),
     gender : {None, S("female"), S("f")},
     birthDate : {None, S("1970-06-15"), S("15/06/1970"), S("1970-6-5")},
     identifier : OptListOf(FhirIdentifiers)]

FhirConcept ==
    [t |-> "CodeableConcept", coding |-> L(<<[t |-> "Coding", system |-> S("http://snomed.info/sct"),
                     code |-> S("260385009")]>>)]

FhirCodings ==
    {[t |-> "Coding", system |-> S("http://loinc.org"), code |-> S("heart-rate")],
     [t |-> "Coding", system |-> None, code |-> S("heart-rate")],
     [t |-> "Coding", system |-> S("http://loinc.org"), code |-> None]}

\* an Observation object that passes every rule but the value rule
FhirObservationBase ==
    [t |-> "Observation",
     resource_type |-> S("Observation"),
     id |-> S("obs-1"),
     status |-> S("final"),
     code |-> [t |-> "CodeableConcept", coding |-> L(<<[t |-> "Coding", system |-> S("http://loinc.org"),
                               code |-> S("heart-rate")]>>)],
     subject |-> [t |-> "Reference", reference |-> S("Patient/p1")],
     effectiveDateTime |-> S("2024-01-01T10:00:00Z"),
     effectivePeriod |-> None,
     valueQuantity |-> None,
     valueCodeableConcept |-> None,
     valueString |-> None,
     valueBoolean |-> None,
     valueInteger |-> None,
     valueRange |-> None,
     valueRatio |-> None,
     valueSampledData |-> None,
     valueTime |-> None,
     valueDateTime |-> None,
     valuePeriod |-> None,
     dataAbsentReason |-> None,
     component |-> None]

FhirObservations ==
    \* the value rule: every combination of value, reason and components
    {[FhirObservationBase EXCEPT
         !.valueQuantity = vq, !.valueCodeableConcept = vc,
         !.valueString = vs, !.valueBoolean = vb, !.valueInteger = vi,
         !.valueTime = vt, !.dataAbsentReason = dar, !.component = cs] :
        vq \in {None, [t |-> "Quantity", value |-> I(0), unit |-> S("mg")]},
        vc \in {None, FhirConcept},
        vs \in {None, S(""), S("high")},
        vb \in {None, B(FALSE), B(TRUE)},
        vi \in {None, I(0), I(7)},
        vt \in {None, S("10:00:00")},
        dar \in {None, FhirConcept},
        cs \in {None, L(<<>>), L(<<[t |-> "ObservationComponent", code |-> FhirConcept]>>)}}
    \* the header rules, with and without a value
    \cup {[FhirObservationBase EXCEPT
              !.resource_type = ty[1], !.id = ty[2], !.status = st,
              !.code = cd, !.subject = sb,
              !.effectiveDateTime = ef[1], !.effectivePeriod = ef[2],
              !.valueInteger = vi] :
             ty \in {<<S("Observation"), S("obs-1")>>,
                     <<S("Patient"), None>>},
             st \in {None, S("final"), S("bogus")},
             cd \in {None, [t |-> "CodeableConcept", coding |-> None]}
                    \cup {[t |-> "CodeableConcept", coding |-> cs] : cs \in OptListOf(FhirCodings)},
             sb \in {None, [t |-> "Reference", reference |-> None],
                     [t |-> "Reference", reference |-> S("Practitioner/d9")],
                     [t |-> "Reference", reference |-> S("Patient/p1")]},
             ef \in {<<None, None>>,
                     <<None, [t |-> "Period", start |-> S("2024-01-01")]>>,
                     <<S("2024-01-01T10:00:00Z"), None>>,
                     <<S("yesterday"), None>>},
             vi \in {None, I(7)}}

(***************************************************************************)
(* Inputs: the payloads and path ids of the requests to the FHIR API.      *)
(***************************************************************************)
\* a versionId older than every reading of the clock
OldVersionId == S("2023-12-31T00:00:00")

\* the payloads of POST /fhir/Patient
CreatePatientPayloads ==
    {Without(WirePatientBase, {"id", "meta"}),
     Without(WirePatientBase, {"meta"}),
     Without(WirePatientBase, {"meta", "identifier"}),
     ("birthDate" :> S("15/06/1970")) @@ Without(WirePatientBase, {"meta"})}

\* the payloads of PUT /fhir/Patient/{id}
UpdatePatientPayloads ==
    {Without(WirePatientBase, {"meta"}),
     ("id" :> S("p2")) @@ Without(WirePatientBase, {"meta"}),
     ("meta" :> [versionId |-> OldVersionId]) @@ WirePatientBase,
     ("birthDate" :> S("15/06/1970")) @@ Without(WirePatientBase, {"meta"})}

PathIds == {S("p1"), S("p2")}

\* the bodies of POST /ml/predictions: PredictionRequest(**body)
PredictionRequests ==
    [patient_id : PathIds,
     model_id : {S("risk-predictor")},
     observation_ids : {None},
     context : {None}]
    \cup {[patient_id |-> S("p1"), model_id |-> S("mortality"),
           observation_ids |-> None, context |-> None],
          [patient_id |-> S("p1"), model_id |-> S("condition-classifier"),
           observation_ids |-> L(<<S("obs-7")>>), context |-> None]}

RequestObservations ==
    {("valueInteger" :> I(72)) @@ WireObservationBase,
     WireObservationBase,
     ("valueInteger" :> I(72)) @@ Without(WireObservationBase, {"subject"}),
     ("status" :> S("bogus")) @@ WireObservationBase}

(***************************************************************************)
(* The state machine: one request at a time is decoded or constructed,     *)
(* encoded and decoded again, or validated.                                *)
(***************************************************************************)
Init ==
    /\ NoDagRun
    /\ callers = EmptyDict
    /\ pc = "start"
    /\ now = 0
    /\ uuids = 0
    /\ wire_in = None
    /\ entity = None
    /\ wire_out = None
    /\ redecoded = None
    /\ report = None
    /\ patient_table = {}
    /\ observation_table = {}
    /\ prediction_table = {}
    /\ fhir_ingestion_stream = <<>>
    /\ notification_stream = <<>>
    /\ ml_prediction_stream = <<>>
    /\ calls = 0
    /\ response = None

\* Observation.from_fhir(fhir_data) on an inbound payload
DecodeObservation ==
    /\ pc = "start"
    /\ \E fhir_data \in WireObservations, dt \in 0..MaxTick :
          /\ now' = now + dt
          /\ wire_in' = fhir_data
          /\ entity' = ObservationFromFhir(fhir_data, now', uuids)
    /\ uuids' = uuids + 1
    /\ pc' = "obs_decoded"
    /\ UNCHANGED <<wire_out, redecoded, report>>
    /\ UNCHANGED storeVars
    /\ UNCHANGED <<dagVars, callers>>

\* Observation(...) called directly
ConstructObservation ==
    /\ pc = "start"
    /\ \E dt \in 0..MaxTick :
          /\ now' = now + dt
          /\ \E args \in ModelObservationArgs(now') :
                entity' = Observation(args)
    /\ pc' = "obs_built"
    /\ UNCHANGED <<uuids, wire_in, wire_out, redecoded, report>>
    /\ UNCHANGED storeVars
    /\ UNCHANGED <<dagVars, callers>>

\* observation.to_fhir()
EncodeObservation ==
    /\ pc \in {"obs_decoded", "obs_built"}
    /\ ~IsErr(entity)
    /\ wire_out' = ObservationToFhir(entity)
    /\ pc' = "obs_encoded"
    /\ UNCHANGED <<now, uuids, wire_in, entity, redecoded, report>>
    /\ UNCHANGED storeVars
    /\ UNCHANGED <<dagVars, callers>>

\* Observation.from_fhir(observation.to_fhir())
RedecodeObservation ==
    /\ pc = "obs_encoded"
    /\ \E dt \in 0..MaxTick :
          /\ now' = now + dt
          /\ redecoded' = ObservationFromFhir(wire_out, now', uuids)
    /\ uuids' = uuids + 1
    /\ pc' = "obs_redecoded"
    /\ UNCHANGED <<wire_in, entity, wire_out, report>>
    /\ UNCHANGED storeVars
    /\ UNCHANGED <<dagVars, callers>>

\* Patient.from_fhir(fhir_data) on an inbound payload
DecodePatient ==
    /\ pc = "start"
    /\ \E fhir_data \in WirePatients, dt \in 0..MaxTick :
          /\ now' = now + dt
          /\ wire_in' = fhir_data
          /\ entity' = PatientFromFhir(fhir_data, now', uuids)
    /\ uuids' = uuids + 1
    /\ pc' = "pat_decoded"
    /\ UNCHANGED <<wire_out, redecoded, report>>
    /\ UNCHANGED storeVars
    /\ UNCHANGED <<dagVars, callers>>

\* Patient(...) called directly
ConstructPatient ==
    /\ pc = "start"
    /\ \E dt \in 0..MaxTick :
          /\ now' = now + dt
          /\ \E args \in ModelPatientArgs(now') : entity' = Patient(args)
    /\ pc' = "pat_built"
    /\ UNCHANGED <<uuids, wire_in, wire_out, redecoded, report>>
    /\ UNCHANGED storeVars
    /\ UNCHANGED <<dagVars, callers>>

\* patient.to_fhir()
EncodePatient ==
    /\ pc \in {"pat_decoded", "pat_built"}
    /\ ~IsErr(entity)
    /\ wire_out' = PatientToFhir(entity)
    /\ pc' = "pat_encoded"
    /\ UNCHANGED <<now, uuids, wire_in, entity, redecoded, report>>
    /\ UNCHANGED storeVars
    /\ UNCHANGED <<dagVars, callers>>

\* Patient.from_fhir(patient.to_fhir())
RedecodePatient ==
    /\ pc = "pat_encoded"
    /\ \E dt \in 0..MaxTick :
          /\ now' = now + dt
          /\ redecoded' = PatientFromFhir(wire_out, now', uuids)
    /\ uuids' = uuids + 1
    /\ pc' = "pat_redecoded"
    /\ UNCHANGED <<wire_in, entity, wire_out, report>>
    /\ UNCHANGED storeVars
    /\ UNCHANGED <<dagVars, callers>>

\* FHIRValidator.validate_patient(patient) on a FHIR Patient object
ValidatePatient ==
    /\ pc = "start"
    /\ \E patient \in FhirPatients :
          /\ wire_in' = patient
          /\ report' = validate_patient(patient)
    /\ pc' = "pat_validated"
    /\ UNCHANGED <<now, uuids, entity, wire_out, redecoded>>
    /\ UNCHANGED storeVars
    /\ UNCHANGED <<dagVars, callers>>

\* FHIRValidator.validate_observation(observation) on a FHIR Observation
\* object
ValidateObservation ==
    /\ pc = "start"
    /\ \E observation \in FhirObservations :
          /\ wire_in' = observation
          /\ report' = validate_observation(observation)
    /\ pc' = "obs_validated"
    /\ UNCHANGED <<now, uuids, entity, wire_out, redecoded>>
    /\ UNCHANGED storeVars
    /\ UNCHANGED <<dagVars, callers>>

\* the identifier values and systems validate_identifier is applied to
IdentifierValues ==
    {S(v) : v \in {"", "\n", "123-45-6789", "123456789", "123-45-6789\n",
                   "12-345-6789", "123-45-678", "123-45-67890",
                   "123-45-6789-", "123-4a-6789", "A", "1A", "1a", "1AB",
                   "123456789A", "1234567890A", "123456789A\n", "1234567890",
                   "12345678901", "123456789", "1234567890\n", "MRN001"}}

IdentifierSystems ==
    {SsnSystem, MedicareSystem, NpiSystem,
     S("http://hospital.example.org/mrn"), S("urn:oid:2.16.840.1.113883")}

\* FHIRValidator.validate_identifier(identifier, system)
ValidateIdentifier ==
    /\ pc = "start"
    /\ \E identifier \in IdentifierValues, system \in IdentifierSystems :
          /\ wire_in' = [identifier |-> identifier, system |-> system]
          /\ report' = validate_identifier(identifier, system)
    /\ pc' = "id_validated"
    /\ UNCHANGED <<now, uuids, entity, wire_out, redecoded>>
    /\ UNCHANGED storeVars
    /\ UNCHANGED <<dagVars, callers>>

\* stored patients and observations extract_features is applied to
FeaturePatients ==
    {[patient_id |-> S("p1"), gender |-> S("male"),
      birth_date |-> S("1970-06-15"), deceased |-> B(FALSE)],
     [patient_id |-> S("p1"), gender |-> None, birth_date |-> None],
     [patient_id |-> S("p1")]}

FeatureObservation(n, type, values) ==
    [observation_id |-> S("obs-" \o Digits[n + 1]),
     observation_type |-> type,
     timestamp |-> S("2024-01-0" \o Digits[n + 1] \o "T00:00:00")]
    @@ values @@ NoModelValue

FeatureQuantity(value) ==
    [value_quantity |-> QuantityDict(Quantity(value, S("mg/dL"), None, None))]

FeatureObservations ==
    {FeatureObservation(1, S("heart-rate"), [value_integer |-> I(72)]),
     FeatureObservation(2, S("heart-rate"),
                        FeatureQuantity(F("0.0")) @@ [value_integer |-> I(5)]),
     FeatureObservation(3, S("heart-rate"), [value_integer |-> I(0)]),
     FeatureObservation(4, S("temperature"), [value_boolean |-> B(TRUE)]),
     FeatureObservation(5, S("lab-glucose"), FeatureQuantity(I(0))),
     FeatureObservation(6, S("lab-glucose"), [value_string |-> S("high")]),
     FeatureObservation(7, S("lab-condition-anemia"),
                        [value_integer |-> I(9),
                         value_codeable_concept |->
                             CodeableConceptDict(ModelConcept)]),
     FeatureObservation(1, S("condition-diabetes"), EmptyDict),
     FeatureObservation(2, S("condition-post-condition-care"),
                        [value_integer |-> I(1)]),
     FeatureObservation(3, S("medication-aspirin"), [value_integer |-> I(1)]),
     FeatureObservation(4, S("medication-non-medication-therapy"),
                        EmptyDict),
     FeatureObservation(5, S("weight"), [value_integer |-> I(80)]),
     FeatureObservation(6, None, [value_integer |-> I(80)]),
     [observation_id |-> S("obs-0"), value_integer |-> I(5)],
     [observation_id |-> S("obs-8"), observation_type |-> S("lab-glucose"),
      value_integer |-> I(5)],
     [observation_id |-> S("obs-9"), observation_type |-> S("temperature"),
      timestamp |-> None, value_quantity |-> [unit |-> S("C")]]}

\* extract_features(patient, observations)
ExtractFeatures ==
    /\ pc = "start"
    /\ \E patient \in FeaturePatients,
          observations \in SeqsUpTo(FeatureObservations, MaxList) :
          /\ wire_in' = [patient |-> patient,
                         observations |-> L(observations)]
          /\ report' = extract_features(patient, L(observations), now)
    /\ pc' = "features_extracted"
    /\ UNCHANGED <<now, uuids, entity, wire_out, redecoded>>
    /\ UNCHANGED storeVars
    /\ UNCHANGED <<dagVars, callers>>

\* the birth dates calculate_age is applied to
BirthDates ==
    {None, I(1970)}
    \cup {S(d) : d \in {"", "1970-06-15", "1970-01-01", "1970-12-31",
                        "2024-02-29", "2030-01-01", "0000-01-01", "1970",
                        "1970-13-45", "06-15-1970", "1970/06/15", "unknown",
                        "-1970-06-15", " 1970-06-15", "+1970-06-15",
                        "1_970-06-15", "19 70-06-15", "1970_-06-15",
                        "1970-06-15\n", "year-06-15"}}

\* calculate_age(birth_date)
CalculateAge ==
    /\ pc = "start"
    /\ \E birth_date \in BirthDates :
          /\ wire_in' = birth_date
          /\ report' = calculate_age(birth_date, now)
    /\ pc' = "age_calculated"
    /\ UNCHANGED <<now, uuids, entity, wire_out, redecoded>>
    /\ UNCHANGED storeVars
    /\ UNCHANGED <<dagVars, callers>>

Next ==
    \/ DecodeObservation
    \/ ConstructObservation
    \/ EncodeObservation
    \/ RedecodeObservation
    \/ DecodePatient
    \/ ConstructPatient
    \/ EncodePatient
    \/ RedecodePatient
    \/ ValidatePatient
    \/ ValidateObservation
    \/ ValidateIdentifier
    \/ ExtractFeatures
    \/ CalculateAge

Spec == Init /\ [][Next]_vars

(***************************************************************************)
(* The FHIR API serving requests against the tables and the streams        *)
(* (src/api/handlers/fhir_handler.py). One request is served at a time; a  *)
(* writing request takes a step for its put_item and one for each of its   *)
(* put_record calls.                                                       *)
(***************************************************************************)
StoreInit ==
    /\ NoDagRun
    /\ callers = EmptyDict
    /\ pc = "idle"
    /\ now = 0
    /\ uuids = 0
    /\ wire_in = None
    /\ entity = None
    /\ wire_out = None
    /\ redecoded = None
    /\ report = None
    /\ patient_table = {}
    /\ observation_table = {}
    /\ prediction_table = {}
    /\ fhir_ingestion_stream = <<>>
    /\ notification_stream = <<>>
    /\ ml_prediction_stream = <<>>
    /\ calls = 0
    /\ response = None

\* the clock reading of a request, later than that of the request before
Tick(clock) == clock + 1

\* GET /fhir/Patient/{id}: handler() with get_patient(patient_id)
GetPatient ==
    /\ pc = "idle"
    /\ \E patient_id \in PathIds :
          LET patient == get_patient(patient_id)
          IN response' =
                 [op |-> "get_patient", arg |-> patient_id,
                  result |-> patient,
                  statusCode |-> IF patient = None THEN 404 ELSE 200]
    /\ UNCHANGED <<pc, now, uuids, wire_in, entity, wire_out, redecoded,
                   report, patient_table, observation_table,
                   prediction_table, fhir_ingestion_stream,
                   notification_stream, ml_prediction_stream, calls>>
    /\ UNCHANGED <<dagVars, callers>>

\* create_patient(patient_data) up to its put_item
CreatePatient ==
    /\ pc = "idle"
    /\ calls < MaxWrites
    /\ calls' = calls + 1
    /\ \E patient_data \in CreatePatientPayloads :
          LET clock == Tick(now)
              patient == PatientFromFhir(patient_data, clock, uuids)
          IN /\ now' = clock
             /\ wire_in' = patient_data
             /\ entity' = patient
             /\ IF IsErr(patient)
                THEN /\ response' = Served("create_patient", None, patient, 201)
                     /\ pc' = "idle"
                     /\ UNCHANGED patient_table
                ELSE /\ response' = InFlight("create_patient", None, patient)
                     /\ pc' = "stored"
                     /\ patient_table' =
                            PutItem(patient_table, patient,
                                    "patient_id", "version")
    /\ uuids' = uuids + 1
    /\ UNCHANGED <<wire_out, redecoded, report, observation_table,
                   prediction_table, fhir_ingestion_stream,
                   notification_stream, ml_prediction_stream>>
    /\ UNCHANGED <<dagVars, callers>>

\* update_patient(patient_id, patient_data) up to its put_item
UpdatePatient ==
    /\ pc = "idle"
    /\ calls < MaxWrites
    /\ calls' = calls + 1
    /\ \E patient_id \in PathIds, patient_data \in UpdatePatientPayloads :
          LET clock == Tick(now)
              existing_patient == get_patient(patient_id)
              data == ("id" :> patient_id) @@ patient_data
              patient == PatientFromFhir(data, clock, uuids)
          IN /\ wire_in' = patient_data
             /\ IF existing_patient = None
                THEN /\ response' =
                            Served("update_patient", patient_id,
                                   Err("Patient " \o patient_id.s
                                       \o " not found"), 200)
                     /\ pc' = "idle"
                     /\ UNCHANGED <<now, uuids, entity, patient_table>>
                ELSE /\ now' = clock
                     /\ uuids' = uuids + 1
                     /\ entity' = patient
                     /\ IF IsErr(patient)
                        THEN /\ response' =
                                    Served("update_patient", patient_id,
                                           patient, 200)
                             /\ pc' = "idle"
                             /\ UNCHANGED patient_table
                        ELSE /\ response' =
                                    InFlight("update_patient", patient_id,
                                             patient)
                             /\ pc' = "stored"
                             /\ patient_table' =
                                    PutItem(patient_table, patient,
                                            "patient_id", "version")
    /\ UNCHANGED <<wire_out, redecoded, report, observation_table,
                   prediction_table, fhir_ingestion_stream,
                   notification_stream, ml_prediction_stream>>
    /\ UNCHANGED <<dagVars, callers>>

\* create_observation(observation_data) up to its put_item
CreateObservation ==
    /\ pc = "idle"
    /\ calls < MaxWrites
    /\ calls' = calls + 1
    /\ \E observation_data \in RequestObservations :
          LET clock == Tick(now)
              observation ==
                  ObservationFromFhir(observation_data, clock, uuids)
          IN /\ now' = clock
             /\ wire_in' = observation_data
             /\ entity' = observation
             /\ IF IsErr(observation)
                THEN /\ response' =
                            Served("create_observation", None, observation,
                                   201)
                     /\ pc' = "idle"
                     /\ UNCHANGED observation_table
                ELSE /\ response' =
                            InFlight("create_observation", None, observation)
                     /\ pc' = "stored"
                     /\ observation_table' =
                            PutItem(observation_table, observation,
                                    "observation_id", "timestamp")
    /\ uuids' = uuids + 1
    /\ UNCHANGED <<wire_out, redecoded, report, patient_table,
                   prediction_table, fhir_ingestion_stream,
                   notification_stream, ml_prediction_stream>>
    /\ UNCHANGED <<dagVars, callers>>

\* an ingestion record that always says "create"
IngestionRecordAsCreate ==
    IF response.op = "create_observation"
    THEN StreamRecord(entity.observation_id,
                      [resource_type |-> "Observation",
                       operation |-> "create", data |-> entity])
    ELSE StreamRecord(entity.patient_id,
                      [resource_type |-> "Patient",
                       operation |-> "create", data |-> entity])

\* the ingestion record of the request being served
IngestionRecord ==
    IF response.op = "create_observation"
    THEN StreamRecord(entity.observation_id,
                      [resource_type |-> "Observation",
                       operation |-> "create", data |-> entity])
    ELSE StreamRecord(entity.patient_id,
                      [resource_type |-> "Patient",
                       operation |-> IF response.op = "create_patient"
                                     THEN "create" ELSE "update",
                       data |-> entity])

\* the notification record of the request being served
NotificationRecord ==
    CASE response.op = "create_patient" ->
            StreamRecord(entity.patient_id,
                         [type |-> "patient_created",
                          patient_id |-> entity.patient_id,
                          timestamp |-> entity.created_at])
      [] response.op = "update_patient" ->
            StreamRecord(entity.patient_id,
                         [type |-> "patient_updated",
                          patient_id |-> entity.patient_id,
                          timestamp |-> entity.updated_at])
      [] response.op = "create_observation" ->
            StreamRecord(entity.patient_id,
                         [type |-> "observation_created",
                          observation_id |-> entity.observation_id,
                          patient_id |-> entity.patient_id,
                          observation_type |-> entity.observation_type,
                          timestamp |-> entity.created_at])

\* the HTTP status of the request being served when it returns
ReturnStatus == IF response.op = "update_patient" THEN 200 ELSE 201

\* kinesis.put_record(StreamName=FHIR_INGESTION_STREAM, ...): the record is
\* put, or the call raises and the request ends with that exception
PublishIngestion ==
    /\ pc = "stored"
    /\ \/ /\ fhir_ingestion_stream' =
                Append(fhir_ingestion_stream, IngestionRecord)
          /\ pc' = "ingested"
          /\ UNCHANGED response
       \/ /\ response' = Served(response.op, response.arg, ClientError,
                                ReturnStatus)
          /\ pc' = "idle"
          /\ UNCHANGED fhir_ingestion_stream
    /\ UNCHANGED <<now, uuids, wire_in, entity, wire_out, redecoded, report,
                   patient_table, observation_table, prediction_table,
                   notification_stream, ml_prediction_stream, calls>>
    /\ UNCHANGED <<dagVars, callers>>

\* kinesis.put_record(StreamName=NOTIFICATION_STREAM, ...) and the return
\* of the stored dict, or the exception of the put_record
PublishNotification ==
    /\ pc = "ingested"
    /\ \/ /\ notification_stream' =
                Append(notification_stream, NotificationRecord)
          /\ response' = Served(response.op, response.arg, entity,
                                ReturnStatus)
       \/ /\ response' = Served(response.op, response.arg, ClientError,
                                ReturnStatus)
          /\ UNCHANGED notification_stream
    /\ pc' = "idle"
    /\ UNCHANGED <<now, uuids, wire_in, entity, wire_out, redecoded, report,
                   patient_table, observation_table, prediction_table,
                   fhir_ingestion_stream, ml_prediction_stream, calls>>
    /\ UNCHANGED <<dagVars, callers>>

\* PatientRepository.update_patient(patient_id, patient_data), the
\* repository's own update (src/data/repositories/patient_repo.py): no
\* events; the outcome is the dict returned or the ValueError raised
update_patient(patient_id, patient_data) ==
    IF get_patient(patient_id) = None
    THEN Err("Patient " \o patient_id.s \o " not found")
    ELSE IF Get(patient_data, "patient_id", None) # patient_id
    THEN Err("patient_id in data does not match patient_id parameter")
    ELSE patient_data

\* the patient dicts handed to the repository: Patient(...).dict() built
\* at clock reading clock
RepositoryPatients(clock) ==
    {PatientFromFhir(("active" :> B(FALSE)) @@ ("id" :> id)
                        @@ Without(WirePatientBase, {"meta"}),
                     clock, uuids) : id \in PathIds}

\* a caller of PatientRepository.update_patient
RepositoryUpdatePatient ==
    /\ pc = "idle"
    /\ calls < MaxWrites
    /\ calls' = calls + 1
    /\ now' = Tick(now)
    /\ \E patient_id \in PathIds, patient_data \in RepositoryPatients(now') :
          LET outcome == update_patient(patient_id, patient_data)
          IN /\ wire_in' = patient_data
             /\ response' =
                    [op |-> "PatientRepository.update_patient",
                     arg |-> patient_id, result |-> outcome,
                     statusCode |-> 0]
             /\ patient_table' =
                    IF IsErr(outcome) THEN patient_table
                    ELSE PutItem(patient_table, patient_data,
                                 "patient_id", "version")
    /\ UNCHANGED <<pc, uuids, entity, wire_out, redecoded, report,
                   observation_table, prediction_table,
                   fhir_ingestion_stream, notification_stream,
                   ml_prediction_stream>>
    /\ UNCHANGED <<dagVars, callers>>

\* create_prediction(request) up to its put_item
CreatePrediction ==
    /\ pc = "idle"
    /\ calls < MaxWrites
    /\ calls' = calls + 1
    /\ \E request \in PredictionRequests :
          LET clock == Tick(now)
              prediction == NewPrediction(request, clock, uuids)
          IN /\ wire_in' = request
             /\ IF IsErr(prediction)
                THEN /\ response' =
                            Served("create_prediction", request, prediction,
                                   201)
                     /\ pc' = "idle"
                     /\ UNCHANGED <<now, uuids, entity, prediction_table>>
                ELSE /\ now' = clock
                     /\ uuids' = uuids + 1
                     /\ entity' = prediction
                     /\ response' =
                            InFlight("create_prediction", request,
                                     prediction)
                     /\ pc' = "prediction_stored"
                     /\ prediction_table' =
                            PutItem(prediction_table, prediction,
                                    "prediction_id", "timestamp")
    /\ UNCHANGED <<wire_out, redecoded, report, patient_table,
                   observation_table, fhir_ingestion_stream,
                   notification_stream, ml_prediction_stream>>
    /\ UNCHANGED <<dagVars, callers>>

\* the record create_prediction puts on a stream with key key
PredictionRecord(key) ==
    StreamRecord(key,
                 [type |-> "prediction_created",
                  prediction_id |-> entity.prediction_id,
                  patient_id |-> entity.patient_id,
                  model_id |-> entity.model_id,
                  prediction |-> entity.output_data.prediction,
                  timestamp |-> entity.timestamp])

\* a notification keyed by the prediction
PredictionNotificationByPrediction ==
    PredictionRecord(entity.prediction_id)

\* the notification record of create_prediction
PredictionNotification == PredictionRecord(wire_in.patient_id)

\* kinesis.put_record(StreamName=ML_PREDICTION_STREAM, ...) or its exception
PublishPrediction ==
    /\ pc = "prediction_stored"
    /\ \/ /\ ml_prediction_stream' =
                Append(ml_prediction_stream,
                       PredictionRecord(wire_in.patient_id))
          /\ pc' = "prediction_published"
          /\ UNCHANGED response
       \/ /\ response' = Served(response.op, response.arg, ClientError, 201)
          /\ pc' = "idle"
          /\ UNCHANGED ml_prediction_stream
    /\ UNCHANGED <<now, uuids, wire_in, entity, wire_out, redecoded, report,
                   patient_table, observation_table, prediction_table,
                   fhir_ingestion_stream, notification_stream, calls>>
    /\ UNCHANGED <<dagVars, callers>>

\* kinesis.put_record(StreamName=NOTIFICATION_STREAM, ...) of
\* create_prediction and the return of the response dict, or the exception
PublishPredictionNotification ==
    /\ pc = "prediction_published"
    /\ \/ /\ notification_stream' =
                Append(notification_stream, PredictionNotification)
          /\ response' = Served(response.op, response.arg,
                                PredictionResponse(entity), 201)
       \/ /\ response' = Served(response.op, response.arg, ClientError, 201)
          /\ UNCHANGED notification_stream
    /\ pc' = "idle"
    /\ UNCHANGED <<now, uuids, wire_in, entity, wire_out, redecoded, report,
                   patient_table, observation_table, prediction_table,
                   fhir_ingestion_stream, ml_prediction_stream, calls>>
    /\ UNCHANGED <<dagVars, callers>>

StoreNext ==
    \/ GetPatient
    \/ CreatePatient
    \/ UpdatePatient
    \/ CreateObservation
    \/ PublishIngestion
    \/ PublishNotification
    \/ RepositoryUpdatePatient
    \/ CreatePrediction
    \/ PublishPrediction
    \/ PublishPredictionNotification

StoreSpec == StoreInit /\ [][StoreNext]_vars

(***************************************************************************)
(* Callers of the PatientRepository over a table that holds patients       *)
(* (src/data/repositories/patient_repo.py), one call after the other.      *)
(***************************************************************************)
\* every version of the patient of the key goes
DeleteAllVersions(table, key) ==
    {i \in table : i.patient_id # key.patient_id}

\* table.delete_item(Key=key)
DeleteItem(table, key) ==
    {i \in table :
        ~(i.patient_id = key.patient_id /\ i.version = key.version)}

\* PatientRepository.delete_patient(patient_id): True, or the ValueError
\* raised, which `except ClientError` does not catch
delete_patient(patient_id) ==
    IF get_patient(patient_id) = None
    THEN Err("Patient " \o patient_id.s \o " not found")
    ELSE B(TRUE)

\* the patients a table may hold when the repository is opened: those
\* stored at the first MaxVersions readings of the clock
StoredPatients == UNION {RepositoryPatients(clock) : clock \in 1..MaxVersions}

RepoInit ==
    /\ pc = "idle"
    /\ now = MaxVersions
    /\ uuids = 0
    /\ wire_in = None
    /\ entity = None
    /\ wire_out = None
    /\ redecoded = None
    /\ report = None
    /\ patient_table \in SUBSET StoredPatients
    /\ observation_table = {}
    /\ prediction_table = {}
    /\ fhir_ingestion_stream = <<>>
    /\ notification_stream = <<>>
    /\ ml_prediction_stream = <<>>
    /\ calls = 0
    /\ response = None
    /\ callers = EmptyDict
    /\ NoDagRun

\* a caller of PatientRepository.delete_patient
RepositoryDeletePatient ==
    /\ pc = "idle"
    /\ calls < MaxWrites
    /\ calls' = calls + 1
    /\ \E patient_id \in PathIds :
          LET existing_patient == get_patient(patient_id)
              outcome == delete_patient(patient_id)
          IN /\ wire_in' = patient_id
             /\ response' =
                    [op |-> "PatientRepository.delete_patient",
                     arg |-> patient_id, result |-> outcome,
                     statusCode |-> 0]
             /\ patient_table' =
                    IF IsErr(outcome) THEN patient_table
                    ELSE DeleteItem(patient_table,
                                    [patient_id |-> patient_id,
                                     version |-> existing_patient.version])
    /\ UNCHANGED <<pc, now, uuids, entity, wire_out, redecoded, report,
                   observation_table, prediction_table,
                   fhir_ingestion_stream, notification_stream,
                   ml_prediction_stream>>
    /\ UNCHANGED <<dagVars, callers>>

RepoNext ==
    \/ RepositoryUpdatePatient
    \/ RepositoryDeletePatient

RepoSpec == RepoInit /\ [][RepoNext]_vars

(***************************************************************************)
(* Callers of the PatientRepository that run at the same time, each in its *)
(* own process against the one table: the query of get_patient and the     *)
(* put_item or delete_item that follows it are separate requests to the    *)
(* table, and requests of other callers come between them.                 *)
(***************************************************************************)
Callers == {"c1", "c2"}

\* a caller that has not called yet
NoCall == [op |-> "none", at |-> "idle"]

RaceInit ==
    /\ pc = "race"
    /\ now = MaxVersions
    /\ uuids = 0
    /\ wire_in = None
    /\ entity = None
    /\ wire_out = None
    /\ redecoded = None
    /\ report = None
    /\ patient_table \in SUBSET StoredPatients
    /\ observation_table = {}
    /\ prediction_table = {}
    /\ fhir_ingestion_stream = <<>>
    /\ notification_stream = <<>>
    /\ ml_prediction_stream = <<>>
    /\ calls = 0
    /\ response = None
    /\ callers = [c \in Callers |-> NoCall]
    /\ NoDagRun

\* the variables a step of a caller leaves alone, the table apart
NotOfCaller ==
    UNCHANGED <<pc, uuids, wire_in, entity, wire_out, redecoded, report,
                observation_table, prediction_table, fhir_ingestion_stream,
                notification_stream, ml_prediction_stream, calls, response,
                dagVars>>

\* update_patient(patient_id, patient_data) up to the answer of
\* `existing_patient = await self.get_patient(patient_id)`
UpdateGetPatient ==
    /\ \E c \in Callers :
          /\ callers[c].at = "idle"
          /\ now' = Tick(now)
          /\ \E patient_id \in PathIds,
                patient_data \in RepositoryPatients(now') :
                callers' =
                   [callers EXCEPT ![c] =
                       [op |-> "update_patient", at |-> "checked",
                        patient_id |-> patient_id,
                        patient_data |-> patient_data,
                        existing_patient |-> get_patient(patient_id)]]
    /\ UNCHANGED patient_table
    /\ NotOfCaller

\* update_patient from `if not existing_patient` to its end
UpdatePutItem ==
    /\ \E c \in Callers :
          LET call == callers[c]
              outcome ==
                  IF call.existing_patient = None
                  THEN Err("Patient " \o call.patient_id.s \o " not found")
                  ELSE IF Get(call.patient_data, "patient_id", None)
                             # call.patient_id
                  THEN Err("patient_id in data does not match patient_id parameter")
                  ELSE call.patient_data
          IN /\ call.op = "update_patient"
             /\ call.at = "checked"
             /\ patient_table' =
                    IF IsErr(outcome) THEN patient_table
                    ELSE PutItem(patient_table, call.patient_data,
                                 "patient_id", "version")
             /\ callers' =
                    [callers EXCEPT ![c] =
                        [op |-> "update_patient", at |-> "done",
                         patient_id |-> call.patient_id,
                         result |-> outcome]]
    /\ UNCHANGED now
    /\ NotOfCaller

\* delete_patient(patient_id) up to the answer of
\* `existing_patient = await self.get_patient(patient_id)`
DeleteGetPatient ==
    /\ \E c \in Callers, patient_id \in PathIds :
          /\ callers[c].at = "idle"
          /\ callers' =
                [callers EXCEPT ![c] =
                    [op |-> "delete_patient", at |-> "checked",
                     patient_id |-> patient_id,
                     existing_patient |-> get_patient(patient_id)]]
    /\ UNCHANGED <<now, patient_table>>
    /\ NotOfCaller

\* delete_patient from `if not existing_patient` to its end
DeleteDeleteItem ==
    /\ \E c \in Callers :
          LET call == callers[c]
              found == call.existing_patient # None
          IN /\ call.op = "delete_patient"
             /\ call.at = "checked"
             /\ patient_table' =
                    IF found
                    THEN DeleteItem(patient_table,
                                    [patient_id |-> call.patient_id,
                                     version |->
                                         call.existing_patient.version])
                    ELSE patient_table
             /\ callers' =
                    [callers EXCEPT ![c] =
                        [op |-> "delete_patient", at |-> "done",
                         patient_id |-> call.patient_id,
                         result |->
                             IF found THEN B(TRUE)
                             ELSE Err("Patient " \o call.patient_id.s
                                      \o " not found")]]
    /\ UNCHANGED now
    /\ NotOfCaller

RaceNext ==
    \/ UpdateGetPatient
    \/ UpdatePutItem
    \/ DeleteGetPatient
    \/ DeleteDeleteItem

RaceSpec == RaceInit /\ [][RaceNext]_vars

(***************************************************************************)
(* A run of the ETL DAG (src/airflow/dags/etl_pipeline.py).                *)
(***************************************************************************)
\* what the transform function has written and answered: the two data sets
\* under their paths, or an answer without s3_observations_path
TransformResults ==
    LET PatientsPath == "s3://" \o S3_BUCKET \o "/etl/fhir/patients.json"
        ObservationsPath ==
            "s3://" \o S3_BUCKET \o "/etl/fhir/observations.json"
        Written(patients, observations) ==
            [objects |-> ("etl/fhir/patients.json" :> L(patients))
                         @@ ("etl/fhir/observations.json" :> L(observations)),
             result |-> [s3_patients_path |-> S(PatientsPath),
                         s3_observations_path |-> S(ObservationsPath)]]
    IN {Written(patients, observations) :
           patients \in SeqsUpTo({S("p1")}, MaxList),
           observations \in SeqsUpTo({S("obs-1")}, MaxList)}
       \cup {[Written(<<S("p1")>>, <<S("obs-1")>>) EXCEPT
                 !.result = [s3_patients_path |-> S(PatientsPath)]]}

EtlInit ==
    /\ pc = "dag"
    /\ now = 0
    /\ uuids = 0
    /\ wire_in = None
    /\ entity = None
    /\ wire_out = None
    /\ redecoded = None
    /\ report = None
    /\ patient_table = {}
    /\ observation_table = {}
    /\ prediction_table = {}
    /\ fhir_ingestion_stream = <<>>
    /\ notification_stream = <<>>
    /\ ml_prediction_stream = <<>>
    /\ calls = 0
    /\ response = None
    /\ callers = EmptyDict
    /\ NoDagRun

\* the variables no task of the DAG touches
NotOfDag ==
    UNCHANGED <<pc, now, uuids, wire_in, entity, wire_out, redecoded, report,
                storeVars, callers>>

\* the state of a task whose try has failed
AfterFailure(task) ==
    IF try_number[task] <= retries THEN "up_for_retry" ELSE "failed"

\* the scheduler starts a task whose upstream tasks have all succeeded
StartTask ==
    /\ \E task \in Tasks :
          /\ task_state[task] \in {"none", "up_for_retry"}
          /\ \A up \in Upstream(task) : task_state[up] = "success"
          /\ task_state' = [task_state EXCEPT ![task] = "running"]
          /\ try_number' = [try_number EXCEPT ![task] = @ + 1]
    /\ UNCHANGED <<xcom, s3>>
    /\ NotOfDag

\* the scheduler gives up a task with an upstream task that has failed
MarkUpstreamFailed ==
    /\ \E task \in Tasks :
          /\ task_state[task] = "none"
          /\ \E up \in Upstream(task) :
                task_state[up] \in {"failed", "upstream_failed"}
          /\ task_state' = [task_state EXCEPT ![task] = "upstream_failed"]
    /\ UNCHANGED <<try_number, xcom, s3>>
    /\ NotOfDag

\* a try of a task fails
TaskFails(task) ==
    /\ task_state' = [task_state EXCEPT ![task] = AfterFailure(task)]
    /\ UNCHANGED <<try_number, xcom, s3>>

\* extract_fhir_data(**context): the lambda answers with the path, or fails
ExtractFhirData ==
    /\ task_state["extract_fhir_data"] = "running"
    /\ \/ /\ xcom' = XcomPush(xcom, "extract_fhir_data", "s3_extract_path",
                              S("s3://" \o S3_BUCKET \o "/etl/fhir/raw.json"))
          /\ task_state' =
                [task_state EXCEPT !["extract_fhir_data"] = "success"]
          /\ UNCHANGED <<try_number, s3>>
       \/ TaskFails("extract_fhir_data")
    /\ NotOfDag

\* transform_fhir_data(**context): the lambda writes the data sets and
\* answers with their paths, or fails
TransformFhirData ==
    /\ task_state["transform_fhir_data"] = "running"
    /\ \/ \E written \in TransformResults :
             /\ s3' = written.objects @@ s3
             /\ xcom' =
                   XcomPush(
                       XcomPush(xcom, "transform_fhir_data",
                                "s3_patients_path",
                                Get(written.result, "s3_patients_path",
                                    None)),
                       "transform_fhir_data", "s3_observations_path",
                       Get(written.result, "s3_observations_path", None))
             /\ task_state' =
                   [task_state EXCEPT !["transform_fhir_data"] = "success"]
             /\ UNCHANGED try_number
       \/ TaskFails("transform_fhir_data")
    /\ NotOfDag

\* validate_data(**context)
ValidateData ==
    /\ task_state["validate_data"] = "running"
    /\ IF IsErr(validate_data)
       THEN TaskFails("validate_data")
       ELSE /\ xcom' =
                  XcomPush(
                      XcomPush(xcom, "validate_data", "patients_count",
                               validate_data.patients_count),
                      "validate_data", "observations_count",
                      validate_data.observations_count)
            /\ task_state' =
                  [task_state EXCEPT !["validate_data"] = "success"]
            /\ UNCHANGED <<try_number, s3>>
    /\ NotOfDag

\* S3ToRedshiftOperator of a load task: the copy succeeds or fails
LoadToRedshift ==
    /\ \E task \in LoadTasks :
          /\ task_state[task] = "running"
          /\ \/ /\ task_state' = [task_state EXCEPT ![task] = "success"]
                /\ UNCHANGED <<try_number, xcom, s3>>
             \/ TaskFails(task)
    /\ NotOfDag

EtlNext ==
    \/ StartTask
    \/ MarkUpstreamFailed
    \/ ExtractFhirData
    \/ TransformFhirData
    \/ ValidateData
    \/ LoadToRedshift

EtlSpec == EtlInit /\ [][EtlNext]_vars


(***************************************************************************)
(* Properties of the value[x] resolution (spec 4.1).                       *)
(***************************************************************************)
\* the wire keys of value[x] in priority order, and the model field of each
ValueKeys ==
    <<"valueQuantity", "valueString", "valueBoolean", "valueInteger",
      "valueCodeableConcept">>

ValueFields ==
    <<"value_quantity", "value_string", "value_boolean", "value_integer",
      "value_codeable_concept">>

ValueKeySet == {ValueKeys[n] : n \in 1..5}

\* the value[x] keys a dict carries
PresentValueKeys(d) == DOMAIN d \cap ValueKeySet

\* the priority rank of the first value[x] key present in d, 0 if none is
FirstPresent(d) ==
    IF PresentValueKeys(d) = {} THEN 0
    ELSE CHOOSE n \in 1..5 :
            /\ ValueKeys[n] \in DOMAIN d
            /\ \A m \in 1..(n - 1) : ValueKeys[m] \notin DOMAIN d

\* model value v is the variant of wire key k carrying wire payload w
IsVariantOf(v, k, w) ==
    CASE k = "valueQuantity" ->
            /\ v.t = "Quantity"
            /\ v.value = Get(w, "value", I(0))
            /\ v.unit = Get(w, "unit", S(""))
      [] k = "valueCodeableConcept" ->
            /\ v.t = "CodeableConcept"
            /\ v.coding = Get(w, "coding", L(<<>>))
      [] OTHER -> v = w

\* the model object m (an Observation or a component) holds exactly the
\* highest-priority value[x] of dict d and None in its other value fields
ResolvedByPriority(d, m) ==
    \A n \in 1..5 :
        IF n = FirstPresent(d)
        THEN /\ m[ValueFields[n]] # None
             /\ IsVariantOf(m[ValueFields[n]], ValueKeys[n], d[ValueKeys[n]])
        ELSE m[ValueFields[n]] = None

\* C1: Observation.from_fhir resolves the value of the Observation and of
\* each of its components by first-match priority Quantity > String >
\* Boolean > Integer > CodeableConcept: whatever subset of the value[x] keys
\* the input carries, the highest-priority present key populates its
\* value_* field and every other value_* field is None.
C1_ValuePriority ==
    (pc = "obs_decoded" /\ ~IsErr(entity)) =>
        /\ ResolvedByPriority(wire_in, entity)
        /\ LET comps == Get(wire_in, "component", L(<<>>)).l
           IN IF comps = <<>> THEN entity.component = None
              ELSE /\ Len(entity.component.l) = Len(comps)
                   /\ \A n \in 1..Len(comps) :
                         ResolvedByPriority(comps[n], entity.component.l[n])

\* a payload with Boolean, Integer and CodeableConcept but neither Quantity
\* nor String was decoded: the Boolean won
C1_Witness ==
    /\ pc = "obs_decoded"
    /\ PresentValueKeys(wire_in) =
           {"valueBoolean", "valueInteger", "valueCodeableConcept"}
    /\ entity.value_boolean = B(FALSE)
    /\ entity.value_integer = None

\* C2: an input with exactly one value[x] key decodes, through from_fhir
\* and the value accessor, to that variant with its payload (false, 0 and
\* "" included); an input with no value[x] key decodes to None.
C2_SingleVariant ==
    (pc = "obs_decoded" /\ ~IsErr(entity)) =>
        /\ PresentValueKeys(wire_in) = {}
               => ObservationValue(entity) = None
        /\ \A k \in ValueKeySet :
               PresentValueKeys(wire_in) = {k}
                   => /\ ObservationValue(entity) # None
                      /\ IsVariantOf(ObservationValue(entity), k, wire_in[k])

\* valueBoolean = false alone was decoded and the accessor returns False
C2_Witness ==
    /\ pc = "obs_decoded"
    /\ PresentValueKeys(wire_in) = {"valueBoolean"}
    /\ wire_in["valueBoolean"] = B(FALSE)
    /\ ObservationValue(entity) = B(FALSE)

\* the wire key of the variant a model value belongs to
KeyOfVariant(v) ==
    CASE v.t = "Quantity" -> "valueQuantity"
      [] v.t = "str" -> "valueString"
      [] v.t = "bool" -> "valueBoolean"
      [] v.t = "int" -> "valueInteger"
      [] v.t = "CodeableConcept" -> "valueCodeableConcept"

\* C3: Observation.to_fhir emits exactly one value[x] key when the
\* Observation has an active value variant, namely the key of the variant
\* the value accessor returns, carrying that value; it emits no value[x]
\* key when no variant is active.
C3_EncodeOneValue ==
    pc = "obs_encoded" =>
        LET v == ObservationValue(entity)
        IN IF v = None THEN PresentValueKeys(wire_out) = {}
           ELSE /\ PresentValueKeys(wire_out) = {KeyOfVariant(v)}
                /\ IsVariantOf(v, KeyOfVariant(v), wire_out[KeyOfVariant(v)])

\* an Observation holding both an empty string and an integer was encoded:
\* only valueString is on the wire
C3_Witness ==
    /\ pc = "obs_encoded"
    /\ entity.value_quantity = None
    /\ entity.value_string = S("")
    /\ entity.value_integer = I(7)
    /\ PresentValueKeys(wire_out) = {"valueString"}

(***************************************************************************)
(* Properties of the codec (spec 4.2 and 8).                               *)
(***************************************************************************)
\* an optional string or list that is None, "" or [] carries no data
NoData(v) == v = None \/ v = S("") \/ v = L(<<>>)

\* two optional values are semantically equal
SameOpt(a, b) == a = b \/ (NoData(a) /\ NoData(b))

SameIdentifier(a, b) ==
    /\ a.system = b.system /\ a.value = b.value
    /\ SameOpt(a.type, b.type) /\ SameOpt(a.use, b.use)

SameName(a, b) ==
    /\ a.family = b.family /\ a.given = b.given /\ a.use = b.use
    /\ SameOpt(a.prefix, b.prefix) /\ SameOpt(a.suffix, b.suffix)

\* two lists of equal length whose elements correspond under Same(_, _)
SameList(xs, ys, Same(_, _)) ==
    /\ Len(xs.l) = Len(ys.l)
    /\ \A n \in 1..Len(xs.l) : Same(xs.l[n], ys.l[n])

\* Patients x and y agree on every field but created_at / updated_at
SamePatient(x, y) ==
    /\ x.patient_id = y.patient_id
    /\ x.version = y.version
    /\ x.active = y.active
    /\ SameList(x.identifiers, y.identifiers, SameIdentifier)
    /\ SameList(x.name, y.name, SameName)
    /\ x.gender = y.gender
    /\ x.birth_date = y.birth_date
    /\ x.deceased = y.deceased
    /\ x.deceased_date = y.deceased_date
    /\ SameOpt(x.address, y.address)
    /\ SameOpt(x.telecom, y.telecom)
    /\ SameOpt(x.marital_status, y.marital_status)

\* C6: Patient round trip: Patient.from_fhir(x.to_fhir()) equals x on
\* every field except created_at / updated_at, for every constructed
\* Patient x (an absent optional value and an empty one counted as equal).
C6_PatientRoundTrip ==
    pc = "pat_redecoded" =>
        /\ ~IsErr(redecoded)
        /\ SamePatient(entity, redecoded)

SameComponent(a, b) ==
    a.code = b.code /\ ComponentValue(a) = ComponentValue(b)

\* Observations x and y agree on the fields that are not bookkeeping
SameObservation(x, y) ==
    /\ x.observation_id = y.observation_id
    /\ x.status = y.status
    /\ x.category = y.category
    /\ x.code = y.code
    /\ x.subject = y.subject
    /\ x.patient_id = y.patient_id
    /\ x.observation_type = y.observation_type
    /\ x.encounter = y.encounter
    /\ x.effective_date_time = y.effective_date_time
    /\ ObservationValue(x) = ObservationValue(y)
    /\ x.data_absent_reason = y.data_absent_reason
    /\ IF NoData(x.component) \/ NoData(y.component)
       THEN NoData(x.component) /\ NoData(y.component)
       ELSE SameList(x.component, y.component, SameComponent)

\* C7: Observation round trip: Observation.from_fhir(x.to_fhir()) equals x
\* on every field except the bookkeeping timestamps: status, category,
\* code, patient_id, observation_type, effective time, the active value
\* variant, data_absent_reason and every component's code and value.
C7_ObservationRoundTrip ==
    pc = "obs_redecoded" =>
        /\ ~IsErr(redecoded)
        /\ SameObservation(entity, redecoded)

\* the wire payload carries well-formed dates: a YYYY-MM-DD birthDate
WellFormedBirthDate(d) ==
    "birthDate" \in DOMAIN d /\ StrpTimeYmd(d["birthDate"].s) # -1

DatesAccepted(d) ==
    /\ WellFormedBirthDate(d)
    /\ "deceasedDateTime" \in DOMAIN d =>
          /\ StrpTimeYmd(d["deceasedDateTime"].s) # -1
          /\ StrpTimeYmd(d["deceasedDateTime"].s)
                 >= StrpTimeYmd(d["birthDate"].s)

C9_DeceasedExclusive ==
    pc = "pat_encoded" =>
        IF entity.deceased_date # None
        THEN /\ "deceasedDateTime" \in DOMAIN wire_out
             /\ "deceasedBoolean" \notin DOMAIN wire_out
        ELSE /\ "deceasedBoolean" \in DOMAIN wire_out
             /\ "deceasedDateTime" \notin DOMAIN wire_out

\* a JSON value holds a null at some nesting level
RECURSIVE HasNull(_)
HasNull(v) ==
    IF v = None THEN TRUE
    ELSE IF "t" \notin DOMAIN v THEN \E k \in DOMAIN v : HasNull(v[k])
    ELSE IF v.t = "list" THEN \E n \in 1..Len(v.l) : HasNull(v.l[n])
    ELSE FALSE

\* C10: the output of Patient.to_fhir and of Observation.to_fhir holds no
\* null at any nesting level: absent optional fields are omitted.
C10_NoNullEmitted ==
    pc \in {"pat_encoded", "obs_encoded"} => ~HasNull(wire_out)

(***************************************************************************)
(* Claims about the validator.                                             *)
(***************************************************************************)
ValueRuleMessage ==
    "Observation must have a value, data absent reason, or component"

ValueAttributes ==
    {"valueQuantity", "valueCodeableConcept", "valueString", "valueBoolean",
     "valueInteger", "valueRange", "valueRatio", "valueSampledData",
     "valueTime", "valueDateTime", "valuePeriod"}

\* a value of some variant is present, whatever it is
HasValue(o) == \E a \in ValueAttributes : o[a] # None
HasDataAbsentReason(o) == o.dataAbsentReason # None
HasComponents(o) == o.component # None /\ o.component # L(<<>>)

Reports(r, msg) == \E n \in 1..Len(r.errors) : r.errors[n] = msg

\* C4: validate_observation reports the value rule exactly when the
\* Observation has no value, no data-absent reason and no component; a
\* present value counts whatever it is, false, 0 and "" included.
C4_ValuePresence ==
    pc = "obs_validated" =>
        (Reports(report, ValueRuleMessage)
            <=> ~(HasValue(wire_in) \/ HasDataAbsentReason(wire_in)
                  \/ HasComponents(wire_in)))

\* the rule (1..6) a Patient error message belongs to
PatientRuleOf(msg) ==
    CASE msg = "Resource type must be 'Patient'" -> 1
      [] msg = "Patient ID is required" -> 2
      [] msg \in {"Patient must have at least one name",
                  "Patient name must have a family name",
                  "Patient name must have at least one given name"} -> 3
      [] msg \in {"Patient gender is required",
                  "Patient gender must be 'male', 'female', 'other', or 'unknown'"}
            -> 4
      [] msg \in {"Patient birth date is required",
                  "Patient birth date must be in YYYY-MM-DD format"} -> 5
      [] msg \in {"Patient must have at least one identifier",
                  "Patient identifier must have a system",
                  "Patient identifier must have a value"} -> 6
      [] OTHER -> 0

\* the rule (1..7) an Observation error message belongs to
ObservationRuleOf(msg) ==
    CASE msg = "Resource type must be 'Observation'" -> 1
      [] msg = "Observation ID is required" -> 2
      [] msg \in {"Observation status is required",
                  "Observation status is invalid"} -> 3
      [] msg \in {"Observation code is required",
                  "Observation code must have at least one coding",
                  "Observation code coding must have a system",
                  "Observation code coding must have a code"} -> 4
      [] msg \in {"Observation subject is required",
                  "Observation subject reference is required",
                  "Observation subject reference must be a Patient"} -> 5
      [] msg \in {"Observation must have an effective date/time or period",
                  "Observation effective date/time must be in ISO format"}
            -> 6
      [] msg = ValueRuleMessage -> 7
      [] OTHER -> 0

Absent(v) == v \in {None, S(""), L(<<>>)}

\* the Patient rules that p violates, each judged on its own
PatientViolated(p) ==
    {r \in 1..6 :
        CASE r = 1 -> p.resource_type # S("Patient")
          [] r = 2 -> Absent(p.id)
          [] r = 3 -> \/ Absent(p.name)
                      \/ \E n \in 1..Len(p.name.l) :
                            \/ Absent(p.name.l[n].family)
                            \/ Absent(p.name.l[n].given)
          [] r = 4 -> p.gender \notin {S("male"), S("female"), S("other"),
                                       S("unknown")}
          [] r = 5 -> \/ Absent(p.birthDate)
                      \/ StrpTimeYmd(p.birthDate.s) = -1
          [] r = 6 -> \/ Absent(p.identifier)
                      \/ \E n \in 1..Len(p.identifier.l) :
                            \/ Absent(p.identifier.l[n].system)
                            \/ Absent(p.identifier.l[n].value)}

\* the Observation rules that o violates, each judged on its own
ObservationViolated(o) ==
    {r \in 1..7 :
        CASE r = 1 -> o.resource_type # S("Observation")
          [] r = 2 -> Absent(o.id)
          [] r = 3 -> o.status \notin valid_statuses
          [] r = 4 -> \/ o.code = None
                      \/ Absent(o.code.coding)
                      \/ \E n \in 1..Len(o.code.coding.l) :
                            \/ Absent(o.code.coding.l[n].system)
                            \/ Absent(o.code.coding.l[n].code)
          [] r = 5 -> \/ o.subject = None
                      \/ Absent(o.subject.reference)
                      \/ ~StartsWith(o.subject.reference.s, "Patient/")
          [] r = 6 -> IF Absent(o.effectiveDateTime)
                      THEN o.effectivePeriod = None
                      ELSE ~FromIsoFormatOk(ReplaceZ(o.effectiveDateTime.s))
          [] r = 7 -> ~(HasValue(o) \/ HasDataAbsentReason(o)
                        \/ HasComponents(o))}

\* the errors are grouped by rule, the groups in rule order
InRuleOrder(errors, RuleOf(_)) ==
    \A m, n \in 1..Len(errors) : m < n => RuleOf(errors[m]) <= RuleOf(errors[n])

ReportedRules(errors, RuleOf(_)) == {RuleOf(errors[n]) : n \in 1..Len(errors)}

\* C5: the validators evaluate every rule and never stop at the first
\* failure: each violated rule has an entry among the errors, so k violated
\* rules give at least k entries; the entries come in rule order; and the
\* error is raised exactly when the list is not empty.
C5_Aggregation ==
    /\ pc = "pat_validated" =>
          /\ ReportedRules(report.errors, PatientRuleOf)
                = PatientViolated(wire_in)
          /\ Len(report.errors) >= Cardinality(PatientViolated(wire_in))
          /\ InRuleOrder(report.errors, PatientRuleOf)
          /\ report.t = "ValidationError" <=> report.errors # <<>>
          /\ report.t = "returned" <=> PatientViolated(wire_in) = {}
    /\ pc = "obs_validated" =>
          /\ ObservationViolated(wire_in)
                \subseteq ReportedRules(report.errors, ObservationRuleOf)
          /\ ReportedRules(report.errors, ObservationRuleOf) \ {7}
                \subseteq ObservationViolated(wire_in)
          /\ Len(report.errors) >= Cardinality(ObservationViolated(wire_in))
          /\ InRuleOrder(report.errors, ObservationRuleOf)
          /\ report.t = "ValidationError" <=> report.errors # <<>>

\* an Observation violating all seven rules has been validated
C5_Witness ==
    /\ pc = "obs_validated"
    /\ ObservationViolated(wire_in) = 1..7
    /\ report.t = "ValidationError"
    /\ Len(report.errors) = 7

(***************************************************************************)
(* Claims about the FHIR API: persistence, events, reads and failures.     *)
(***************************************************************************)
WriteOps == {"create_patient", "update_patient", "create_observation"}

\* the last request was a write of the FHIR API and has ended
Ended == pc = "idle" /\ response # None /\ response.op \in WriteOps

\* ... and its caller got the stored dict
Succeeded == Ended /\ ~IsErr(response.result)

\* an item with the key of d is in the table
KeyStored(table, pk, sk, d) ==
    \E i \in table : i[pk] = d[pk] /\ i[sk] = d[sk]

\* the rules of the validator, on a stored Patient
StoredPatientValid(p) ==
    /\ Len(p.identifiers.l) > 0
    /\ Len(p.name.l) > 0
    /\ \A n \in 1..Len(p.name.l) :
          /\ p.name.l[n].family \notin {None, S("")}
          /\ p.name.l[n].given \notin {None, L(<<>>)}

\* the rules of the validator, on a stored Observation
StoredObservationValid(o) ==
    /\ \/ ObservationValue(o) # None
       \/ o.data_absent_reason # None
       \/ o.component \notin {None, L(<<>>)}
    /\ o.patient_id # S("")

\* C11: validate before persist: every stored Patient has an identifier and
\* a name with family and given, every stored Observation has a value, a
\* data-absent reason or components, and a patient_id.
C11_ValidateBeforePersist ==
    /\ \A p \in patient_table : StoredPatientValid(p)
    /\ \A o \in observation_table : StoredObservationValid(o)

\* the positions of the records of a stream that satisfy Is
Positions(stream, Is(_)) == {n \in 1..Len(stream) : Is(stream[n])}

\* the ingestion event of the write that has succeeded
IsIngestionOfEntity(r) == r.Data.data = entity

\* the notification event of the write that has succeeded
IsNotificationOfEntity(r) ==
    /\ r.Data.type # "prediction_created"
    /\ r.Data.timestamp = entity.created_at
    /\ r.Data.patient_id = entity.patient_id

\* C12: every ingestion event is that of an item written before, keyed by
\* the entity id; every notification follows the ingestion event of its
\* write; a successful create or update has emitted exactly one ingestion
\* event {resource_type, operation, data} keyed by the entity id, with
\* operation create or update, and exactly one notification keyed by the
\* patient_id.
C12_Events ==
    /\ \A n \in 1..Len(fhir_ingestion_stream) :
          LET r == fhir_ingestion_stream[n]
              d == r.Data.data
          IN IF r.Data.resource_type = "Patient"
             THEN /\ KeyStored(patient_table, "patient_id", "version", d)
                  /\ r.PartitionKey = d.patient_id
                  /\ r.Data.operation \in {"create", "update"}
             ELSE /\ r.Data.resource_type = "Observation"
                  /\ KeyStored(observation_table, "observation_id",
                               "timestamp", d)
                  /\ r.PartitionKey = d.observation_id
                  /\ r.Data.operation = "create"
    /\ \A n \in 1..Len(notification_stream) :
          LET r == notification_stream[n]
          IN r.Data.type # "prediction_created" =>
             /\ r.PartitionKey = r.Data.patient_id
             /\ \E m \in 1..Len(fhir_ingestion_stream) :
                   LET d == fhir_ingestion_stream[m].Data.data
                   IN /\ d.created_at = r.Data.timestamp
                      /\ d.patient_id = r.Data.patient_id
    /\ Succeeded =>
          /\ Positions(fhir_ingestion_stream, IsIngestionOfEntity)
                = {Len(fhir_ingestion_stream)}
          /\ Positions(notification_stream, IsNotificationOfEntity)
                = {Len(notification_stream)}
          /\ LET r == fhir_ingestion_stream[Len(fhir_ingestion_stream)]
             IN /\ DOMAIN r.Data = {"resource_type", "operation", "data"}
                /\ r.Data.operation =
                      (IF response.op = "update_patient" THEN "update"
                       ELSE "create")
                /\ r.Data.resource_type =
                      (IF response.op = "create_observation"
                       THEN "Observation" ELSE "Patient")
                /\ r.PartitionKey =
                      (IF response.op = "create_observation"
                       THEN entity.observation_id ELSE entity.patient_id)
          /\ notification_stream[Len(notification_stream)].PartitionKey
                = entity.patient_id

\* an update of a stored patient has succeeded and both its events are out
C12_Witness ==
    /\ Succeeded
    /\ response.op = "update_patient"
    /\ Len(fhir_ingestion_stream) = 2
    /\ Len(notification_stream) = 2

UpdateWrites ==
    /\ pc = "idle"
    /\ pc' = "stored"
    /\ response'.op = "update_patient"

\* C14: update is construct-new-version: the put_item of update_patient
\* leaves every stored version in the table, stores the new record under a
\* sort key not used before, and the latest read of the id is then the new
\* record.
C14_UpdateNewVersion ==
    [][UpdateWrites =>
          /\ patient_table \subseteq patient_table'
          /\ ~KeyStored(patient_table, "patient_id", "version", entity')
          /\ entity' \in patient_table'
          /\ Query(patient_table', "patient_id", response'.arg, "version", 1)
                = <<entity'>>]_vars

\* the request started in this step is an update
StartsUpdate ==
    /\ calls' = calls + 1
    /\ response'.op \in {"update_patient", "PatientRepository.update_patient"}

\* C15: a request that fails before its write (not found, undecodable or
\* mismatching payload) leaves the tables and the streams as they were, and
\* an update of an id with no stored record fails as not found.
C15_FailedLeavesState ==
    [][/\ (calls' = calls + 1 /\ IsErr(response'.result)) =>
             UNCHANGED <<patient_table, observation_table, prediction_table,
                         fhir_ingestion_stream, notification_stream,
                         ml_prediction_stream>>
       /\ (StartsUpdate
           /\ ~\E i \in patient_table : i.patient_id = response'.arg) =>
             response'.result
                = Err("Patient " \o response'.arg.s \o " not found")]_vars

\* an update of an id that is not stored has failed, with other records
\* stored
C15_Witness ==
    /\ Ended
    /\ response.op = "update_patient"
    /\ response.result = Err("Patient p2 not found")
    /\ response.statusCode = 400
    /\ patient_table # {}

\* the identity the payload of the update started in this step carries
PayloadIdentity ==
    IF response'.op = "update_patient"
    THEN Get(wire_in', "id", response'.arg)
    ELSE Get(wire_in', "patient_id", response'.arg)

\* C16: an update whose payload identity differs from the path identity is
\* rejected with an error and writes nothing.
C16_ConflictRejected ==
    [][(StartsUpdate /\ PayloadIdentity # response'.arg) =>
          /\ IsErr(response'.result)
          /\ patient_table' = patient_table]_vars

\* C17: a request whose item was written reports success with the stored
\* record to its caller, whether or not its events could be published.
C17_EventFailureNotBlocking ==
    (Ended /\ (IsErr(response.result) => response.result = ClientError)) =>
        /\ response.result = entity
        /\ response.statusCode \in {200, 201}

\* the records of the stream about the prediction with id prediction_id
EventsOf(stream, prediction_id) ==
    {n \in 1..Len(stream) :
        /\ stream[n].Data.type = "prediction_created"
        /\ stream[n].Data.prediction_id = prediction_id}

\* the prediction of request is stored once, and announced once on stream
\* under the key of the patient
StoredAndAnnounced(request, prediction_id, stream) ==
    /\ \E i \in prediction_table :
          /\ i.prediction_id = prediction_id
          /\ i.patient_id = request.patient_id
          /\ i.model_id = request.model_id
          /\ \A j \in prediction_table :
                j.prediction_id = prediction_id => j = i
    /\ \E n \in EventsOf(stream, prediction_id) :
          /\ EventsOf(stream, prediction_id) = {n}
          /\ stream[n].PartitionKey = request.patient_id
          /\ stream[n].Data.patient_id = request.patient_id
          /\ stream[n].Data.model_id = request.model_id

\* a notification about a prediction follows its prediction event, which
\* follows the stored record
PredictionOrder ==
    /\ \A n \in 1..Len(notification_stream) :
          notification_stream[n].Data.type = "prediction_created" =>
              EventsOf(ml_prediction_stream,
                       notification_stream[n].Data.prediction_id) # {}
    /\ \A n \in 1..Len(ml_prediction_stream) :
          \E i \in prediction_table :
              i.prediction_id = ml_prediction_stream[n].Data.prediction_id

\* C18: a create_prediction that succeeds has stored one Prediction with the
\* patient_id and model_id of the request, then put one prediction event and
\* one notification about it on the streams, both under the patient_id; a
\* create_prediction that fails for a patient not stored or a model not known
\* changes no table and no stream.
C18_PredictionCreated ==
    [][/\ (response'.op = "create_prediction" /\ response'.statusCode = 201) =>
             /\ StoredAndAnnounced(response'.arg,
                                   response'.result.prediction_id,
                                   ml_prediction_stream')
             /\ StoredAndAnnounced(response'.arg,
                                   response'.result.prediction_id,
                                   notification_stream')
             /\ response'.result.patient_id = response'.arg.patient_id
             /\ response'.result.model_id = response'.arg.model_id
       /\ PredictionOrder'
       /\ (/\ pc = "idle"
           /\ response'.op = "create_prediction"
           /\ (get_patient(response'.arg.patient_id) = None
               \/ response'.arg.model_id
                     \notin {S("risk-predictor"), S("condition-classifier")}))
          => /\ IsErr(response'.result)
             /\ response'.statusCode = 400
             /\ UNCHANGED <<patient_table, observation_table,
                            prediction_table, fhir_ingestion_stream,
                            notification_stream, ml_prediction_stream>>]_vars

\* a prediction of the risk model was created for the stored patient p1
C18_Witness ==
    /\ pc = "idle"
    /\ response # None
    /\ response.op = "create_prediction"
    /\ response.statusCode = 201
    /\ response.result.prediction = S("medium-risk")
    /\ Cardinality(prediction_table) = 1
    /\ Len(ml_prediction_stream) = 1
    /\ \E n \in 1..Len(notification_stream) :
          /\ notification_stream[n].Data.type = "prediction_created"
          /\ notification_stream[n].PartitionKey = S("p1")

\* the pattern of the system, matched against the whole of value
MatchesSystemPattern(value, system) ==
    IF system = SsnSystem THEN MatchSsn(value, EndOfString(value))
    ELSE IF system = MedicareSystem THEN MatchMedicare(value, EndOfString(value))
    ELSE IF system = NpiSystem THEN MatchNpi(value, EndOfString(value))
    ELSE TRUE

\* C19: validate_identifier returns true exactly when the value is not empty
\* and is of the form of its system: ddd-dd-dddd for the SSN system, 1 to 9
\* digits and one uppercase letter for Medicare, 10 digits for NPI, anything
\* for a system ending in /mrn or a system that is not known.
C19_IdentifierPattern ==
    pc = "id_validated" =>
        (report = B(TRUE)
            <=> /\ wire_in.identifier.s # ""
                /\ MatchesSystemPattern(wire_in.identifier.s, wire_in.system))

\* the observation_type extract_features reads from an observation
TypeOf(obs) == Get(obs, "observation_type", S("unknown")).s

\* str without its first Len(prefix) characters
WithoutPrefix(str, prefix) == SubSeq(str, Len(prefix) + 1, Len(str))

\* the members of a list of names
Members(names) == {names.l[n] : n \in 1..Len(names.l)}

\* the names the observations of types starting with prefix contribute
Contributed(observations, prefix) ==
    {S(WithoutPrefix(TypeOf(observations[n]), prefix)) :
        n \in {k \in 1..Len(observations) :
                  StartsWith(TypeOf(observations[k]), prefix)}}

\* the types of the observations that satisfy Is and carry a value
TypesWithValue(observations, Is(_)) ==
    {TypeOf(observations[n]) :
        n \in {k \in 1..Len(observations) :
                  /\ Is(TypeOf(observations[k]))
                  /\ FeatureValue(observations[k]) # None}}

IsVitalSign(type) == type \in vital_sign_types

IsLab(type) == StartsWith(type, "lab-")

\* C20: the features hold, for the observations of type condition-X, exactly
\* the names X as conditions; for those of type medication-X, exactly the
\* names X as medications; readings of lab-* types under lab_results only
\* and of the five vital sign types under vital_signs only; nothing else.
C20_FeatureRouting ==
    (pc = "features_extracted" /\ ~IsErr(report)) =>
        LET observations == wire_in.observations.l
        IN /\ Members(report.conditions)
                 = Contributed(observations, "condition-")
           /\ Members(report.medications)
                 = Contributed(observations, "medication-")
           /\ DOMAIN report.lab_results = TypesWithValue(observations, IsLab)
           /\ DOMAIN report.vital_signs
                 = TypesWithValue(observations, IsVitalSign)

\* the numeric payload an observation carries: that of its Quantity, else
\* its Integer, else none
NumericPayload(obs) ==
    IF Get(obs, "value_quantity", None) # None
    THEN obs["value_quantity"]["value"]
    ELSE Get(obs, "value_integer", None)

\* the readings of the observations of a type, in the order of the input
ReadingsOf(observations, type) ==
    LET Carries(obs) == TypeOf(obs) = type /\ NumericPayload(obs) # None
        kept == SelectSeq(observations, Carries)
    IN [n \in 1..Len(kept) |->
           [value |-> NumericPayload(kept[n]),
            timestamp |-> kept[n]["timestamp"]]]

\* the readings the features hold for a type
Recorded(features, type) ==
    LET readings == IF IsVitalSign(type) THEN features.vital_signs
                    ELSE features.lab_results
    IN IF type \in DOMAIN readings THEN readings[type].l ELSE <<>>

\* C21: for every vital sign and lab type the features hold one reading for
\* each observation of the type that carries a Quantity or an Integer, with
\* the value of the Quantity if there is one and else the integer (0 and 0.0
\* too), in the order of the input; observations with only a String, a
\* Boolean or a CodeableConcept add none, and a type without a reading has
\* no entry.
C21_NumericReadings ==
    (pc = "features_extracted" /\ ~IsErr(report)) =>
        LET observations == wire_in.observations.l
            types == {TypeOf(observations[n]) : n \in 1..Len(observations)}
        IN /\ \A type \in {t \in types : IsVitalSign(t) \/ IsLab(t)} :
                 Recorded(report, type) = ReadingsOf(observations, type)
           /\ \A type \in DOMAIN report.vital_signs
                          \cup DOMAIN report.lab_results :
                 Recorded(report, type) # <<>>

\* two heart rates were read in the order given, the first 0.0 from a
\* Quantity that comes with an Integer 5, the second the Integer 0
C21_Witness ==
    /\ pc = "features_extracted"
    /\ ~IsErr(report)
    /\ Len(wire_in.observations.l) = 2
    /\ "heart-rate" \in DOMAIN report.vital_signs
    /\ LET readings == report.vital_signs["heart-rate"].l
       IN /\ Len(readings) = 2
          /\ readings[1].value = F("0.0")
          /\ readings[2].value = I(0)

\* str has the form dddd-dd-dd
HasDateForm(str) ==
    /\ Len(str) = 10
    /\ DigitRun(str, 1, 4)
    /\ CharAt(str, 5, "-")
    /\ DigitRun(str, 6, 2)
    /\ CharAt(str, 8, "-")
    /\ DigitRun(str, 9, 2)

\* no digit comes before the first "-" of str
NoYearDigits(str) ==
    \A p \in 1..Len(str) :
        IsDigit(SubSeq(str, p, p)) => \E q \in 1..(p - 1) : CharAt(str, q, "-")

C23_ExtractNeverFails ==
    pc = "features_extracted" => ~IsErr(report)

\* the Patient rules that p violates, the birth date rule being that the
\* birth date is present and a calendar date written YYYY-MM-DD
StatedPatientViolated(p) ==
    (PatientViolated(p) \ {5})
    \cup {r \in {5} : Absent(p.birthDate) \/ ~IsIsoDate(p.birthDate.s)}

\* C24: validate_patient raises no error exactly when the Patient violates
\* none of the six rules (resource type, id, names with family and given,
\* gender in the enum, birth date written YYYY-MM-DD, identifiers with
\* system and value), and the error it raises names every violated rule.
C24_PatientRules ==
    pc = "pat_validated" =>
        /\ report.t = "returned" <=> StatedPatientViolated(wire_in) = {}
        /\ ReportedRules(report.errors, PatientRuleOf)
              = StatedPatientViolated(wire_in)

\* C25: every Patient that from_fhir or the constructor has built has no
\* deceased_date, or is deceased with a deceased_date that is not earlier
\* than its birth_date.
C25_DeceasedInvariant ==
    (pc \in {"pat_decoded", "pat_built"} /\ ~IsErr(entity)) =>
        \/ entity.deceased_date = None
        \/ /\ entity.deceased = B(TRUE)
           /\ StrpTimeYmd(entity.deceased_date.s)
                 >= StrpTimeYmd(entity.birth_date.s)

\* C26: from_fhir does not fail for data that is missing: a payload without
\* gender (its dates being accepted) decodes to a Patient of gender
\* "unknown", and a payload without birthDate (and without a date of death)
\* decodes to a Patient of birth_date "".
C26_DecodeDefaults ==
    pc = "pat_decoded" =>
        /\ ("gender" \notin DOMAIN wire_in /\ DatesAccepted(wire_in)) =>
              /\ ~IsErr(entity)
              /\ entity.gender = S("unknown")
        /\ ("birthDate" \notin DOMAIN wire_in
            /\ "deceasedDateTime" \notin DOMAIN wire_in) =>
              /\ ~IsErr(entity)
              /\ entity.birth_date = S("")

\* the reference of the subject of a payload, "" if it has none
SubjectReference(d) ==
    IF "subject" \in DOMAIN d /\ "reference" \in DOMAIN d["subject"]
    THEN d["subject"]["reference"].s
    ELSE ""

\* the id that follows "Patient/" in a reference, up to the next "/"
IdPart(reference) ==
    LET rest == WithoutPrefix(reference, "Patient/")
        a == IndexOf(rest, "/", 1)
    IN IF a = 0 THEN rest ELSE SubSeq(rest, 1, a - 1)

\* the first coding of the code of a payload, an empty dict if it has none
FirstCoding(d) ==
    IF /\ "code" \in DOMAIN d
       /\ "coding" \in DOMAIN d["code"]
       /\ d["code"]["coding"].l # <<>>
    THEN d["code"]["coding"].l[1]
    ELSE EmptyDict

\* C27: the Observation from_fhir returns has as patient_id the id after
\* "Patient/" when the subject reference starts with "Patient/" and ""
\* otherwise, and as observation_type the code of the first coding of the
\* code, or "unknown" when there is no coding or the first has no code.
C27_DecodedKeys ==
    (pc = "obs_decoded" /\ ~IsErr(entity)) =>
        /\ entity.patient_id
              = IF StartsWith(SubjectReference(wire_in), "Patient/")
                THEN S(IdPart(SubjectReference(wire_in)))
                ELSE S("")
        /\ entity.observation_type
              = IF "code" \in DOMAIN FirstCoding(wire_in)
                THEN FirstCoding(wire_in)["code"]
                ELSE S("unknown")

\* a payload that refers to a version of patient p1, with a first coding
\* without code, was decoded
C27_Witness ==
    /\ pc = "obs_decoded"
    /\ ~IsErr(entity)
    /\ SubjectReference(wire_in) = "Patient/p1/_history/2"
    /\ FirstCoding(wire_in) = [system |-> S("http://loinc.org")]
    /\ entity.patient_id = S("p1")
    /\ entity.observation_type = S("unknown")

(***************************************************************************)
(* Claims about the ETL DAG.                                               *)
(***************************************************************************)
\* a try of the task has been started
Started(task) ==
    task_state[task] \in {"running", "success", "failed", "up_for_retry"}

\* a data set the transformation has written is empty
EmptyDataSet == \E key \in DOMAIN s3 : s3[key] = L(<<>>)

\* C28: a load task is started only when validate_data has succeeded,
\* validate_data only when transform_fhir_data has succeeded, and that only
\* when extract_fhir_data has succeeded; with an empty patients or
\* observations data set validate_data does not succeed and no load task is
\* started.
C28_LoadAfterValidation ==
    /\ \A task \in Tasks :
          Started(task) => \A up \in Upstream(task) : task_state[up] = "success"
    /\ \A task \in LoadTasks :
          Started(task) => task_state["validate_data"] = "success"
    /\ EmptyDataSet =>
          /\ task_state["validate_data"] # "success"
          /\ \A task \in LoadTasks : ~Started(task)

\* every task of a run has succeeded, the loads after a validation that
\* counted one patient
C28_Witness ==
    /\ \A task \in Tasks : task_state[task] = "success"
    /\ XcomPull("validate_data", "patients_count") = I(1)

(***************************************************************************)
(* Claims about the callers of the PatientRepository.                      *)
(***************************************************************************)
\* the step is a call of PatientRepository.delete_patient
IsDeleteCall ==
    /\ calls' = calls + 1
    /\ response'.op = "PatientRepository.delete_patient"

\* the stored versions of a patient
VersionsOf(table, patient_id) == {i \in table : i.patient_id = patient_id}

WritesUpdate(c) ==
    /\ callers[c].op = "update_patient"
    /\ callers[c].at = "checked"
    /\ callers'[c].at = "done"
    /\ ~IsErr(callers'[c].result)

\* C30: under every interleaving of the callers, update_patient writes its
\* record only if a record of that patient is stored at the moment of the
\* write.
C30_WriteNeedsStoredRecord ==
    [][\A c \in Callers :
          WritesUpdate(c) =>
             VersionsOf(patient_table, callers[c].patient_id) # {}]_vars

====
